---- MODULE Spec2Model ----
(***************************************************************************)
(* The in-memory issue store of the kanban board (IssueStorage) and the    *)
(* route handlers GET/POST /api/issues and PUT/PATCH/DELETE                *)
(* /api/issues/[id] that expose it, PATCH and DELETE in both forms the     *)
(* repository has: the id taken from the path, and from the body.          *)
(* On top of them, the client cache (IssueProvider) whose callbacks send   *)
(* the requests, the view of one issue (IssueDetailProvider) with the      *)
(* issue page, the edit form and the form for a new issue, the router's    *)
(* history that leads from one page to the other, and the board.           *)
(*                                                                         *)
(* An issue is a JSON object: a function from key names to string values.  *)
(* The module's parser takes ASCII strings only, so the texts of the       *)
(* source (seed titles and descriptions, error messages) are written as   *)
(* ASCII stand-ins, one distinct stand-in per distinct text.               *)
(***************************************************************************)
EXTENDS Integers, Sequences, FiniteSets, TLC

\* Bound of the model: number of records the store may create in one run.
MaxCreates == 2

\* Bound of the model: number of calls made on the client cache in one run.
MaxCalls == 2

\* nextId as the field initialiser sets it, before the constructor runs.
FieldInitNextId == 1

\* nextId as the constructor leaves it.
SeedNextId == 9

\* new Error('...') texts of the validators and the handlers.
ErrInvalidRequest == "invalid request"
ErrInvalidIssue == "invalid issue data"
ErrNotFound == "issue not found"
\* Message of the SyntaxError request.json() throws on a body that is not JSON.
ErrSyntax == "SyntaxError: not valid JSON"
\* new Error('...') of the handlers that take the id from the body.
ErrMissingId == "missing issue id"
\* Message of the TypeError that 'id' in body throws when the body is null
\* or a number.
ErrInNull == "Cannot use 'in' operator to search for 'id' in null"
ErrInNumber == "Cannot use 'in' operator to search for 'id' in 5"
\* new Error('...') of createIssue when isLoading is set.
ErrBusy == "another operation is running"

(***************************************************************************)
(* JSON values and object spread                                           *)
(***************************************************************************)

\* The object without properties.
EmptyObject == [k \in {} |-> ""]

\* A parsed request body: kind is the sort of JSON value request.json()
\* gave ("invalid" when it throws), fields are its properties when it is
\* an object.
JsonObject(f) == [kind |-> "object", fields |-> f]
JsonNull == [kind |-> "null", fields |-> EmptyObject]
JsonInvalid == [kind |-> "invalid", fields |-> EmptyObject]

\* typeof data === 'object' : true of objects, arrays and null.
TypeofObject(data) == data.kind \in {"object", "array", "null"}

\* 'key' in data, for data that is an object or an array.
HasKey(data, key) == data.kind = "object" /\ key \in DOMAIN data.fields

\* The own enumerable properties {...data} copies: those of an object; none
\* for null, a number or an empty array.
Spread(data) == IF data.kind = "object" THEN data.fields ELSE EmptyObject

\* { ...a, ...b } : the properties of b override those of a.
Merge(a, b) ==
  [k \in (DOMAIN a) \cup (DOMAIN b) |-> IF k \in DOMAIN b THEN b[k] ELSE a[k]]

\* const { id, ...partialData } = body : the properties of body but key.
Rest(f, key) == [k \in (DOMAIN f) \ {key} |-> f[k]]

\* The values of a property are JavaScript strings, and one number: the
\* number 1, written so that it differs from the string "1" (1 !== '1').
NumberOne == "1 (number)"

\* typeof v
Typeof(v) == IF v = NumberOne THEN "number" ELSE "string"

\* String(n) for a non-negative integer n: its decimal digits.
Digit(d) ==
  CASE d = 0 -> "0" [] d = 1 -> "1" [] d = 2 -> "2" [] d = 3 -> "3"
    [] d = 4 -> "4" [] d = 5 -> "5" [] d = 6 -> "6" [] d = 7 -> "7"
    [] d = 8 -> "8" [] d = 9 -> "9"

RECURSIVE String(_)
String(n) == IF n < 10 THEN Digit(n) ELSE String(n \div 10) \o Digit(n % 10)

(***************************************************************************)
(* IssueStorage                                                            *)
(***************************************************************************)

Issue(id, title, description, status) ==
  [id |-> id, title |-> title, description |-> description, status |-> status]

\* The example data of the constructor.
SeedIssues ==
  << Issue("1", "wash the dishes", "desc1", "todo"),
     Issue("2", "tidy the room", "desc2", "todo"),
     Issue("3", "maths homework", "desc3", "doing"),
     Issue("4", "beat the final boss", "desc4", "doing"),
     Issue("5", "walk the dog", "desc5", "done"),
     Issue("6", "fold the clothes", "desc6", "done"),
     Issue("7", "watch the new episode", "desc7", "done"),
     Issue("8", "build a gaming pc", "desc8", "closed") >>

\* The value a store operation returns for "not found" (null / undefined).
Absent == [found |-> FALSE, issue |-> EmptyObject]
Found(issue) == [found |-> TRUE, issue |-> issue]

\* issues.findIndex((i) => i.id === id): 0-based index of the first record
\* with that id, -1 when there is none.
FindIndex(iss, id) ==
  IF \E i \in 1..Len(iss) : iss[i].id = id
  THEN (CHOOSE i \in 1..Len(iss) :
          /\ iss[i].id = id
          /\ \A j \in 1..(i - 1) : iss[j].id # id) - 1
  ELSE -1

\* getAll(): a copy of the array.
GetAll(iss) == [i \in 1..Len(iss) |-> iss[i]]

\* getById(id): issues.find((issue) => issue.id === id).
GetById(iss, id) ==
  IF FindIndex(iss, id) = -1 THEN Absent ELSE Found(iss[FindIndex(iss, id) + 1])

\* exists(id): issues.some((issue) => issue.id === id).
Exists(iss, id) == \E i \in 1..Len(iss) : iss[i].id = id

\* create without the increment of nextId.
CreateNoIncrement(iss, nid, issue) ==
  LET newIssue == Merge(Spread(issue), [id |-> String(nid)])
  IN [issues |-> Append(iss, newIssue), nextId |-> nid, result |-> Found(newIssue)]

\* create(issue): { ...issue, id: String(nextId) }, push, nextId++.
Create(iss, nid, issue) ==
  LET newIssue == Merge(Spread(issue), [id |-> String(nid)])
  IN [issues |-> Append(iss, newIssue), nextId |-> nid + 1, result |-> Found(newIssue)]

\* update that inserts the record when the id is not found.
UpdateUpsert(iss, nid, id, issue) ==
  LET index == FindIndex(iss, id)
      updatedIssue == Merge(Spread(issue), [id |-> id])
  IN IF index = -1
     THEN [issues |-> Append(iss, updatedIssue), nextId |-> nid,
           result |-> Found(updatedIssue)]
     ELSE [issues |-> [iss EXCEPT ![index + 1] = updatedIssue], nextId |-> nid,
           result |-> Found(updatedIssue)]

\* update that spreads the new fields over the old record:
\* { ...issues[index], ...issue, id }.
UpdateKeepsOldFields(iss, nid, id, issue) ==
  LET index == FindIndex(iss, id)
  IN IF index = -1
     THEN [issues |-> iss, nextId |-> nid, result |-> Absent]
     ELSE LET merged == Merge(Merge(iss[index + 1], Spread(issue)), [id |-> id])
          IN [issues |-> [iss EXCEPT ![index + 1] = merged], nextId |-> nid,
              result |-> Found(merged)]

\* update(id, issue): issues[index] = { ...issue, id }.
Update(iss, nid, id, issue) ==
  LET index == FindIndex(iss, id)
      updatedIssue == Merge(Spread(issue), [id |-> id])
  IN IF index = -1
     THEN [issues |-> iss, nextId |-> nid, result |-> Absent]
     ELSE [issues |-> [iss EXCEPT ![index + 1] = updatedIssue], nextId |-> nid,
           result |-> Found(updatedIssue)]

\* patch with the spreads in the other order: { ...partialIssue, ...issues[index] }.
PatchReversed(iss, nid, id, partialIssue) ==
  LET index == FindIndex(iss, id)
  IN IF index = -1
     THEN [issues |-> iss, nextId |-> nid, result |-> Absent]
     ELSE LET merged == Merge(Spread(partialIssue), iss[index + 1])
          IN [issues |-> [iss EXCEPT ![index + 1] = merged], nextId |-> nid,
              result |-> Found(merged)]

\* patch(id, partialIssue): issues[index] = { ...issues[index], ...partialIssue }.
Patch(iss, nid, id, partialIssue) ==
  LET index == FindIndex(iss, id)
  IN IF index = -1
     THEN [issues |-> iss, nextId |-> nid, result |-> Absent]
     ELSE LET merged == Merge(iss[index + 1], Spread(partialIssue))
          IN [issues |-> [iss EXCEPT ![index + 1] = merged], nextId |-> nid,
              result |-> Found(merged)]

\* delete with splice(index): removes the record and all that follow it.
DeleteSpliceToEnd(iss, nid, id) ==
  LET index == FindIndex(iss, id)
  IN IF index = -1
     THEN [issues |-> iss, nextId |-> nid, deleted |-> FALSE]
     ELSE [issues |-> SubSeq(iss, 1, index), nextId |-> nid, deleted |-> TRUE]

\* delete(id): issues.splice(index, 1).
Delete(iss, nid, id) ==
  LET index == FindIndex(iss, id)
  IN IF index = -1
     THEN [issues |-> iss, nextId |-> nid, deleted |-> FALSE]
     ELSE [issues |-> SubSeq(iss, 1, index) \o SubSeq(iss, index + 2, Len(iss)),
           nextId |-> nid, deleted |-> TRUE]

(***************************************************************************)
(* Request validation                                                      *)
(***************************************************************************)

\* validateJsonRequest(request) passes: it throws when Content-Type is not
\* 'application/json' or Content-Length is '0'.
ValidateJsonRequest(request) ==
  ~ (\/ request.contentType # "application/json"
     \/ request.contentLength = "0")

\* validateIssue without the check of the status key.
ValidateIssueNoStatus(data) ==
  ~ (\/ ~ TypeofObject(data)
     \/ data.kind = "null"
     \/ ~ HasKey(data, "title")
     \/ ~ HasKey(data, "description"))

\* validateIssue(data) passes: it throws unless data is a non-null object
\* with the keys title, description and status.
ValidateIssue(data) ==
  ~ (\/ ~ TypeofObject(data)
     \/ data.kind = "null"
     \/ ~ HasKey(data, "title")
     \/ ~ HasKey(data, "description")
     \/ ~ HasKey(data, "status"))

(***************************************************************************)
(* Responses                                                               *)
(***************************************************************************)

\* NextResponse.json(issue)
IssueResponse(issue) ==
  [status |-> 200, kind |-> "issue", issue |-> issue, list |-> <<>>, error |-> ""]

\* NextResponse.json(issues)
ListResponse(list) ==
  [status |-> 200, kind |-> "list", issue |-> EmptyObject, list |-> list, error |-> ""]

\* NextResponse.json({ success: true })
SuccessResponse ==
  [status |-> 200, kind |-> "success", issue |-> EmptyObject, list |-> <<>>, error |-> ""]

\* NextResponse.json({ error: error.message }, { status: 400 })
ErrorResponse(message) ==
  [status |-> 400, kind |-> "error", issue |-> EmptyObject, list |-> <<>>,
   error |-> message]

\* What a handler leaves behind: the store, its response, and the store
\* operation it executed ("none" when it threw before reaching the store).
NoCall == [op |-> "none", id |-> "", found |-> FALSE, issue |-> EmptyObject]
StoreCall(op, id, result) ==
  [op |-> op, id |-> id, found |-> result.found, issue |-> result.issue]
Outcome(iss, nid, response, call) ==
  [issues |-> iss, nextId |-> nid, response |-> response, call |-> call]
Thrown(iss, nid, message) == Outcome(iss, nid, ErrorResponse(message), NoCall)

(***************************************************************************)
(* Route handlers                                                          *)
(***************************************************************************)

\* GET /api/issues
GET(iss, nid) == Outcome(iss, nid, ListResponse(GetAll(iss)), NoCall)

\* POST /api/issues
POST(iss, nid, request) ==
  IF ~ ValidateJsonRequest(request) THEN Thrown(iss, nid, ErrInvalidRequest)
  ELSE IF request.body.kind = "invalid" THEN Thrown(iss, nid, ErrSyntax)
  ELSE IF ~ ValidateIssue(request.body) THEN Thrown(iss, nid, ErrInvalidIssue)
  ELSE LET c == Create(iss, nid, request.body)
       IN Outcome(c.issues, c.nextId, IssueResponse(c.result.issue),
                  StoreCall("create", c.result.issue.id, c.result))

\* PUT /api/issues/[id]
PUT(iss, nid, id, request) ==
  IF ~ ValidateJsonRequest(request) THEN Thrown(iss, nid, ErrInvalidRequest)
  ELSE IF request.body.kind = "invalid" THEN Thrown(iss, nid, ErrSyntax)
  ELSE IF ~ ValidateIssue(request.body) THEN Thrown(iss, nid, ErrInvalidIssue)
  ELSE LET u == Update(iss, nid, id, request.body)
       IN Outcome(u.issues, u.nextId,
                  IF ~ u.result.found THEN ErrorResponse(ErrNotFound)
                  ELSE IssueResponse(u.result.issue),
                  StoreCall("update", id, u.result))

\* PATCH /api/issues/[id]
PATCH(iss, nid, id, request) ==
  IF ~ ValidateJsonRequest(request) THEN Thrown(iss, nid, ErrInvalidRequest)
  ELSE IF request.body.kind = "invalid" THEN Thrown(iss, nid, ErrSyntax)
  ELSE LET p == Patch(iss, nid, id, request.body)
       IN Outcome(p.issues, p.nextId,
                  IF ~ p.result.found THEN ErrorResponse(ErrNotFound)
                  ELSE IssueResponse(p.result.issue),
                  StoreCall("patch", id, p.result))

\* DELETE that does not look at what delete returned.
DELETEIgnoringResult(iss, nid, id) ==
  LET d == Delete(iss, nid, id)
  IN Outcome(d.issues, d.nextId, SuccessResponse,
             [op |-> "delete", id |-> id, found |-> d.deleted, issue |-> EmptyObject])

\* DELETE /api/issues/[id]
DELETE(iss, nid, id) ==
  LET d == Delete(iss, nid, id)
  IN Outcome(d.issues, d.nextId,
             IF ~ d.deleted THEN ErrorResponse(ErrNotFound) ELSE SuccessResponse,
             [op |-> "delete", id |-> id, found |-> d.deleted, issue |-> EmptyObject])

\* PATCH(request) that takes the id from the body: it strips the id from
\* the partial it hands to the store.
PATCHByBody(iss, nid, request) ==
  IF ~ ValidateJsonRequest(request) THEN Thrown(iss, nid, ErrInvalidRequest)
  ELSE IF request.body.kind = "invalid" THEN Thrown(iss, nid, ErrSyntax)
  ELSE IF request.body.kind = "null" THEN Thrown(iss, nid, ErrInNull)
  ELSE IF request.body.kind = "number" THEN Thrown(iss, nid, ErrInNumber)
  ELSE IF \/ ~ HasKey(request.body, "id")
          \/ Typeof(request.body.fields.id) # "string"
       THEN Thrown(iss, nid, ErrMissingId)
  ELSE LET id == request.body.fields.id
           partialData == JsonObject(Rest(request.body.fields, "id"))
           p == Patch(iss, nid, id, partialData)
       IN Outcome(p.issues, p.nextId,
                  IF ~ p.result.found THEN ErrorResponse(ErrNotFound)
                  ELSE IssueResponse(p.result.issue),
                  StoreCall("patch", id, p.result))

\* DELETE(request) that takes the id from the body and wants a number.
DELETEByBody(iss, nid, request) ==
  IF ~ ValidateJsonRequest(request) THEN Thrown(iss, nid, ErrInvalidRequest)
  ELSE IF request.body.kind = "invalid" THEN Thrown(iss, nid, ErrSyntax)
  ELSE IF request.body.kind = "null" THEN Thrown(iss, nid, ErrInNull)
  ELSE IF request.body.kind = "number" THEN Thrown(iss, nid, ErrInNumber)
  ELSE IF \/ ~ HasKey(request.body, "id")
          \/ Typeof(request.body.fields.id) # "number"
       THEN Thrown(iss, nid, ErrMissingId)
  ELSE LET id == request.body.fields.id
           d == Delete(iss, nid, id)
       IN Outcome(d.issues, d.nextId,
                  IF ~ d.deleted THEN ErrorResponse(ErrNotFound) ELSE SuccessResponse,
                  [op |-> "delete", id |-> id, found |-> d.deleted,
                   issue |-> EmptyObject])

(***************************************************************************)
(* Inputs                                                                  *)
(***************************************************************************)

FullFields == [title |-> "T", description |-> "D", status |-> "todo"]
StatusOnly == [status |-> "done"]
IdOnly == [id |-> "9"]
\* An id that is a number.
NumberIdOnly == [id |-> NumberOne]
\* Partials that name their record in the body.
IdAndStatus == [id |-> "1", status |-> "done"]
NoStatus == [title |-> "T", description |-> "D"]

\* Bodies that are not JSON objects, or not JSON at all: the last two are
\* the body 5 and the body [].
OtherBodies ==
  {JsonInvalid, JsonNull, [kind |-> "number", fields |-> EmptyObject],
   [kind |-> "array", fields |-> EmptyObject]}

\* Bodies sent to POST and PUT: complete ones, without and with an id, and
\* ones lacking a key.
IssueBodies ==
  OtherBodies
    \cup {JsonObject(f) : f \in {FullFields,
                                   [id |-> "1", title |-> "T", description |-> "D",
                                    status |-> "todo"],
                                   [description |-> "D", status |-> "todo"],
                                   [title |-> "T", status |-> "todo"],
                                   NoStatus, EmptyObject}}

\* Bodies sent to PATCH: partial objects, with and without an id key, and
\* one with a key that is not one of the Issue type.
PartialBodies ==
  OtherBodies
    \cup {JsonObject(f) : f \in {StatusOnly, IdOnly, NumberIdOnly,
                                   [assignee |-> "amy"], EmptyObject}}

\* Bodies sent to the handlers that take the id from the body.
BodyIdBodies ==
  OtherBodies
    \cup {JsonObject(f) : f \in {StatusOnly, IdOnly, NumberIdOnly, IdAndStatus,
                                   [id |-> "999", status |-> "done"]}}

\* A request to a handler that takes the id from the path (or takes none).
Request(method, id, contentType, contentLength, body) ==
  [method |-> method, id |-> id, contentType |-> contentType,
   contentLength |-> contentLength, body |-> body, handler |-> "path"]

\* A request to a handler that takes the id from the body; id is the id of
\* the path, which that handler does not read.
BodyIdRequest(method, id, contentType, contentLength, body) ==
  [method |-> method, id |-> id, contentType |-> contentType,
   contentLength |-> contentLength, body |-> body, handler |-> "body"]

\* Headers and body of a request: every body of the set under JSON headers,
\* and one body under each kind of rejected headers.
Payloads(bodies, sample) ==
  {[contentType |-> "application/json", contentLength |-> "42", body |-> b] :
     b \in bodies}
    \cup {[contentType |-> "text/plain", contentLength |-> "42", body |-> sample],
          [contentType |-> "application/json", contentLength |-> "0",
           body |-> sample]}

IssuePayloads == Payloads(IssueBodies, JsonObject(FullFields))
\* Requests to the DELETE that reads a body; the last one is the request
\* without headers and body that the client's deleteIssue sends.
BodyIdDeletePayloads ==
  Payloads({JsonNull, JsonObject(IdOnly), JsonObject(NumberIdOnly),
            JsonObject(EmptyObject)}, JsonObject(NumberIdOnly))
    \cup {[contentType |-> "", contentLength |-> "", body |-> JsonInvalid]}

\* The ids requests are addressed to: seeded ones, created ones, unknown ones.
PathIds == {"1", "9", "999"}
\* The paths of the requests to the handlers that do not read the path.
BodyPathIds == {"1", "999"}

(***************************************************************************)
(* State                                                                   *)
(***************************************************************************)

(***************************************************************************)
(* Routes of the app and the session history                               *)
(***************************************************************************)

\* Bound of the model: number of entries of the session history.
MaxHistory == 4

\* Pages of the /issues/[id] route the user opens.
DetailIds == {"1"}

\* The board, the form for a new issue, `/issues/${issue.id}` and
\* `/issues/${issue.id}/edit`.
BoardPath == "/"
CreatePath == "/issues/create"
IssuePath(id) == "/issues/" \o id
EditPath(id) == "/issues/" \o id \o "/edit"

\* The [id] segment the router hands to IssueDetailLayout for a path, ""
\* for a path outside /issues/[id].
ParamOf(path) ==
  IF \E id \in DetailIds : path \in {IssuePath(id), EditPath(id)}
  THEN CHOOSE id \in DetailIds : path \in {IssuePath(id), EditPath(id)}
  ELSE ""

\* router.push(path), router.replace(path) and router.back() on the
\* entries of the history up to the one shown.
push(h, path) == Append(h, path)
replace(h, path) == [h EXCEPT ![Len(h)] = path]
back(h) == IF Len(h) > 1 THEN SubSeq(h, 1, Len(h) - 1) ELSE h

VARIABLES
  issues,      \* IssueStorage.issues
  nextId,      \* IssueStorage.nextId
  request,     \* the request handled last
  response,    \* the response to it
  storeCall,   \* the store operation its handler executed
  created      \* the ids returned by create, in order

VARIABLES
  clientIssues,       \* IssueProvider: the issues state (the cache)
  isLoading,          \* IssueProvider: the isLoading state
  renderedIsLoading,  \* the isLoading value of the last render, which the
                      \* callbacks handed to the callers have captured
  calls,              \* the calls made on the cache, in order of invocation
  renderedIssues,     \* the issues value of the last render: what the
                      \* board and the layout of /issues/[id] have shown
  page,               \* the path of the page the last render has shown
  resuming,           \* the calls whose await of refresh() is ready to run
                      \* on, in the order of the microtask queue
  callers,            \* the calls that have returned to a handler of a page
                      \* which has not run on yet, in that order
  history,            \* the entries of the session history up to the
                      \* current one, after the calls made on the router
  dragged             \* the text/plain data of the drag under way: the id
                      \* the card's onDragStart has set, "" without a drag

VARIABLES
  returned,    \* the array the last getAll() handed to a caller in the server
               \* process, and whether it is the array of the store
  awaiting,    \* the handlers suspended at an await, each with its request
  log          \* the store operations executed, in order

serverVars == <<issues, nextId, request, response, storeCall, created>>
processVars == <<returned, awaiting, log>>
clientVars ==
  <<clientIssues, isLoading, renderedIsLoading, calls, renderedIssues, page,
    resuming, callers, history, dragged>>

vars == <<issues, nextId, request, response, storeCall, created, clientIssues,
          isLoading, renderedIsLoading, calls, renderedIssues, page, resuming,
          callers, history, dragged, returned, awaiting, log>>

\* No step of the client or the network yet / a step of another party.

NoResponse == [status |-> 0, kind |-> "none", issue |-> EmptyObject, list |-> <<>>,
               error |-> ""]

\* new IssueStorage(): the example data, nextId = 9.

Init ==
  /\ issues = SeedIssues
  /\ nextId = SeedNextId
  /\ request = Request("none", "", "", "", JsonNull)
  /\ response = NoResponse
  /\ storeCall = NoCall
  /\ created = <<>>
  /\ clientIssues = GetAll(SeedIssues)
  /\ isLoading = FALSE
  /\ renderedIsLoading = FALSE
  /\ calls = <<>>
  /\ renderedIssues = GetAll(SeedIssues)
  /\ page = BoardPath
  /\ resuming = <<>>
  /\ callers = <<>>
  /\ history = <<BoardPath>>
  /\ dragged = ""
  /\ returned = [ref |-> "none", value |-> <<>>, fresh |-> FALSE]
  /\ awaiting = <<>>
  /\ log = <<>>

\* The handler ran to its response: the store, the response and the store
\* operation are what it left.
Handle(o) ==
  /\ issues' = o.issues
  /\ nextId' = o.nextId
  /\ response' = o.response
  /\ storeCall' = o.call
  /\ created' = IF o.call.op = "create" THEN Append(created, o.call.id) ELSE created

RequestGET ==
  /\ request' = Request("GET", "", "", "", JsonNull)
  /\ Handle(GET(issues, nextId))
  /\ UNCHANGED <<clientVars, processVars>>

RequestPOST ==
  \E p \in IssuePayloads :
    LET req == Request("POST", "", p.contentType, p.contentLength, p.body)
        o == POST(issues, nextId, req)
    IN /\ o.call.op = "create" => nextId < SeedNextId + MaxCreates
       /\ request' = req
       /\ Handle(o)
       /\ UNCHANGED <<clientVars, processVars>>

RequestPUT ==
  \E id \in PathIds, p \in IssuePayloads :
    LET req == Request("PUT", id, p.contentType, p.contentLength, p.body)
    IN /\ request' = req
       /\ Handle(PUT(issues, nextId, id, req))
       /\ UNCHANGED <<clientVars, processVars>>

RequestPATCH ==
  \E id \in PathIds, p \in Payloads(PartialBodies, JsonObject(StatusOnly)) :
    LET req == Request("PATCH", id, p.contentType, p.contentLength, p.body)
    IN /\ request' = req
       /\ Handle(PATCH(issues, nextId, id, req))
       /\ UNCHANGED <<clientVars, processVars>>

\* The client sends DELETE without headers or body; the handler reads neither.
RequestDELETE ==
  \E id \in PathIds :
    /\ request' = Request("DELETE", id, "", "", JsonNull)
    /\ Handle(DELETE(issues, nextId, id))
    /\ UNCHANGED <<clientVars, processVars>>

\* PATCH handled by the handler that takes the id from the body.
RequestPATCHByBody ==
  \E id \in BodyPathIds, p \in Payloads(BodyIdBodies, JsonObject(IdAndStatus)) :
    LET req == BodyIdRequest("PATCH", id, p.contentType, p.contentLength, p.body)
    IN /\ request' = req
       /\ Handle(PATCHByBody(issues, nextId, req))
       /\ UNCHANGED <<clientVars, processVars>>

\* DELETE handled by the handler that takes the id from the body.
RequestDELETEByBody ==
  \E id \in BodyPathIds, p \in BodyIdDeletePayloads :
    LET req == BodyIdRequest("DELETE", id, p.contentType, p.contentLength, p.body)
    IN /\ request' = req
       /\ Handle(DELETEByBody(issues, nextId, req))
       /\ UNCHANGED <<clientVars, processVars>>

Next ==
  \/ RequestGET
  \/ RequestPOST
  \/ RequestPUT
  \/ RequestPATCH
  \/ RequestDELETE
  \/ RequestPATCHByBody
  \/ RequestDELETEByBody

Spec == Init /\ [][Next]_vars

TypeOK ==
  /\ nextId \in SeedNextId..(SeedNextId + MaxCreates)
  /\ \A i \in 1..Len(issues) :
       {"id", "title", "description", "status"} \subseteq DOMAIN issues[i]

(***************************************************************************)
(* IssueProvider: the client cache                                         *)
(*                                                                         *)
(* refresh, createIssue, patchIssue and deleteIssue are callbacks made by  *)
(* useCallback with isLoading among their dependencies: the isLoading they *)
(* test is the value of the render that made them, and the refresh a       *)
(* mutating callback calls is the one made by the same render.             *)
(***************************************************************************)

\* response.ok
Ok(resp) == resp.status >= 200 /\ resp.status <= 299

\* An answer that does not come from a route handler (a failing server or
\* proxy): a non-OK status with a body that is not JSON, for which
\* response.json().catch(() => null) gives null.
FaultHtml ==
  [status |-> 500, kind |-> "html", issue |-> EmptyObject, list |-> <<>>, error |-> ""]
Faults == {FaultHtml}

\* The text before " (HTTP <status>)" in the fallback message of each callback.
FallbackPrefix(kind) ==
  CASE kind = "refresh" -> "loading issues failed"
    [] kind = "create" -> "creating the issue failed"
    [] kind = "patch" -> "updating the issue failed"
    [] kind = "delete" -> "deleting the issue failed"

\* errorData?.error || `... (HTTP ${response.status})`, where errorData is
\* the parsed body, or null when the body is not JSON.
ErrorMessage(resp, kind) ==
  IF resp.kind = "error" /\ resp.error # ""
  THEN resp.error
  ELSE FallbackPrefix(kind) \o " (HTTP " \o String(resp.status) \o ")"

\* The fetch method of each callback's own request.
Method(kind) ==
  CASE kind = "refresh" -> "GET"
    [] kind = "create" -> "POST"
    [] kind = "patch" -> "PATCH"
    [] kind = "delete" -> "DELETE"

\* if (isLoading) ... at the head of a callback: the value tested is the one
\* the callback captured, not the current state.
Blocked(closure, live) == closure

\* A call that got past the check: setIsLoading(true) and the fetch.
Started(kind, via, id, updates, closure) ==
  [kind |-> kind, via |-> via, id |-> id, updates |-> updates, closure |-> closure,
   phase |-> IF kind = "refresh" THEN "list" ELSE "fetch", skipped |-> FALSE,
   sent |-> <<Method(kind)>>, resp |-> NoResponse, error |-> "",
   result |-> EmptyObject, trace |-> <<"sent " \o Method(kind)>>]

\* A call stopped by the check: it settles at once, as a return or a throw.
Stopped(kind, via, id, updates, closure, phase, error) ==
  [kind |-> kind, via |-> via, id |-> id, updates |-> updates, closure |-> closure,
   phase |-> phase, skipped |-> TRUE, sent |-> <<>>, resp |-> NoResponse,
   error |-> error, result |-> EmptyObject, trace |-> <<>>]

\* refresh(): if (isLoading) return; ...
refresh(closure, live) ==
  IF Blocked(closure, live)
  THEN Stopped("refresh", "global", "", EmptyObject, closure, "resolved", "")
  ELSE Started("refresh", "global", "", EmptyObject, closure)

\* createIssue(issue): if (isLoading) throw new Error(...); ...
createIssue(issue, closure, live) ==
  IF Blocked(closure, live)
  THEN Stopped("create", "global", "", issue, closure, "rejected", ErrBusy)
  ELSE Started("create", "global", "", issue, closure)

\* patchIssue(id, updates): if (isLoading) return; ...
patchIssue(id, updates, via, closure, live) ==
  IF Blocked(closure, live)
  THEN Stopped("patch", via, id, updates, closure, "resolved", "")
  ELSE Started("patch", via, id, updates, closure)

\* deleteIssue(id): if (isLoading) return; ...
deleteIssue(id, via, closure, live) ==
  IF Blocked(closure, live)
  THEN Stopped("delete", via, id, EmptyObject, closure, "resolved", "")
  ELSE Started("delete", via, id, EmptyObject, closure)

\* The request on the wire for the fetch a call is waiting on.
RequestOf(c) ==
  IF c.phase = "list" THEN Request("GET", "", "", "", JsonNull)
  ELSE CASE c.kind = "create" ->
              Request("POST", "", "application/json", "42", JsonObject(c.updates))
         [] c.kind = "patch" ->
              Request("PATCH", c.id, "application/json", "42",
                      JsonObject(Merge([id |-> c.id], c.updates)))
         [] c.kind = "delete" -> Request("DELETE", c.id, "", "", JsonNull)

\* The route handler that answers a request.
Route(iss, nid, req) ==
  CASE req.method = "GET" -> GET(iss, nid)
    [] req.method = "POST" -> POST(iss, nid, req)
    [] req.method = "PUT" -> PUT(iss, nid, req.id, req)
    [] req.method = "PATCH" -> PATCH(iss, nid, req.id, req)
    [] req.method = "DELETE" -> DELETE(iss, nid, req.id)

\* Variant: the refresh() a mutating callback awaits tests the current
\* value of the flag, which the callback itself has set.
NestedRefreshSeesFlag(closure, live) == live

\* The check at the head of the refresh() a mutating callback awaits: that
\* refresh was made by the same render as the callback, so it tests the
\* value the callback tested.
NestedRefreshBlocked(closure, live) == closure

\* Variant: the catch block logs the error and does not throw it again.
CatchSwallows == "resolved"

\* The phase a call settles in when its catch block has run: throw error.
CatchPhase == "rejected"

\* Variant: the flag is cleared at the end of the try block only, so it
\* stays set when the call throws.
FinallyOnSuccess(ok) == ~ ok

\* finally { setIsLoading(false) }: the flag after a call has settled,
\* whether it got a good answer or not.
Finally(ok) == FALSE

\* Variant: the body of the answer to LIST is stored without the test of
\* response.ok.
CacheAfterListUnchecked(cache, resp) == resp.list

\* setIssues(data) after the response.ok test: the cache after the answer to
\* LIST has been read.
CacheAfterList(cache, resp) == IF Ok(resp) THEN resp.list ELSE cache

\* A call after the answer to its own request (POST, PATCH, DELETE) arrived:
\* it throws on a non-OK answer and awaits refresh() otherwise.
AfterMutationResponse(c, live) ==
  IF ~ Ok(c.resp)
  THEN [c EXCEPT !.phase = CatchPhase, !.error = ErrorMessage(c.resp, c.kind),
                 !.trace = c.trace \o <<"answered " \o Method(c.kind), "threw">>]
  ELSE IF NestedRefreshBlocked(c.closure, live)
  THEN [c EXCEPT !.phase = "resolved",
                 !.result = IF c.kind = "create" THEN c.resp.issue ELSE EmptyObject,
                 !.trace = c.trace \o <<"answered " \o Method(c.kind), "returned">>]
  ELSE [c EXCEPT !.phase = "list", !.sent = Append(c.sent, "GET"),
                 !.result = IF c.kind = "create" THEN c.resp.issue ELSE EmptyObject,
                 !.trace = c.trace \o <<"answered " \o Method(c.kind), "sent GET">>]

\* A refresh() call after the answer to LIST arrived: it throws on a non-OK
\* answer; otherwise it replaces the cache and returns.
AfterListResponse(c) ==
  IF ~ Ok(c.resp)
  THEN [c EXCEPT !.phase = CatchPhase, !.error = ErrorMessage(c.resp, "refresh"),
                 !.trace = c.trace \o <<"answered GET", "threw">>]
  ELSE [c EXCEPT !.phase = "resolved",
                 !.trace = c.trace \o <<"answered GET", "cache replaced", "returned">>]

\* A call when the refresh() it awaits has ended (or thrown): refresh() as a
\* call of its own has then settled; a mutating callback runs on only when
\* its await resumes, after the continuations that were ready before it.
AfterRefreshEnded(c) ==
  IF c.kind = "refresh" THEN AfterListResponse(c)
  ELSE [c EXCEPT !.phase = "refreshed",
                 !.trace = c.trace \o (IF Ok(c.resp)
                                        THEN <<"answered GET", "cache replaced">>
                                        ELSE <<"answered GET">>)]

\* Variant: the mutating callback wraps the error of its refresh in its
\* own message.
AfterAwaitRefreshOwnError(c) ==
  IF ~ Ok(c.resp)
  THEN [c EXCEPT !.phase = CatchPhase, !.error = ErrorMessage(c.resp, c.kind),
                 !.trace = c.trace \o <<"threw">>]
  ELSE [c EXCEPT !.phase = "resolved", !.trace = c.trace \o <<"returned">>]

\* A mutating callback when its await of refresh() resumes: it throws the
\* error of refresh on, or returns.
AfterAwaitRefresh(c) ==
  IF ~ Ok(c.resp)
  THEN [c EXCEPT !.phase = CatchPhase, !.error = ErrorMessage(c.resp, "refresh"),
                 !.trace = c.trace \o <<"threw">>]
  ELSE [c EXCEPT !.phase = "resolved", !.trace = c.trace \o <<"returned">>]

\* The rest of a handler of a page after its await of call c, on history h:
\* IssuePage.handleDelete does router.replace('/') after deleteIssue(),
\* IssueEditPage.onSubmit does router.push(`/issues/${issue.id}`) after
\* patchIssue(...), CreateIssuePage.onSubmit does router.push('/') after
\* createIssue(...).  A call that threw leaves the route: the handler
\* rejects, or its catch block shows the message.
HandlerRunsOn(c, h) ==
  IF c.phase # "resolved" THEN h
  ELSE CASE c.via = "scoped" /\ c.kind = "delete" -> replace(h, BoardPath)
         [] c.via = "scoped" /\ c.kind = "patch" -> push(h, IssuePath(c.id))
         [] c.via = "form" -> push(h, BoardPath)
         [] OTHER -> h

\* The handlers that are to run on, in their order, when call i of cs has
\* settled and those of q were waiting.  CreateIssuePage.onSubmit awaits
\* the callback itself and resumes one microtask after it; the handlers of
\* the issue pages await the wrapper of IssueDetailProvider, which awaits
\* the callback, and resume one microtask later still.
HandlerQueue(q, cs, i) ==
  IF ~ (cs[i].via \in {"scoped", "form"} /\ cs[i].phase = "resolved") THEN q
  ELSE IF cs[i].via = "scoped" THEN Append(q, i)
  ELSE SelectSeq(q, LAMBDA j : cs[j].via = "form") \o <<i>>
         \o SelectSeq(q, LAMBDA j : cs[j].via # "form")

\* Variant: the layout takes the first record of the cache and has no
\* early return.
LayoutIssueFirst(cache, id) ==
  IF id = "" \/ Len(cache) = 0 THEN Absent ELSE Found(cache[1])

\* issues.find((issue) => issue.id === id) of IssueDetailLayout.
LayoutIssue(cache, id) == IF id = "" THEN Absent ELSE GetById(cache, id)

\* const { id } = use(params) of IssueDetailLayout in the last render: the
\* [id] of the page shown, "" when the page is outside /issues/[id].
detailId == ParamOf(page)

\* The issue prop of the IssueDetailProvider that the last render mounted:
\* Absent when the layout rendered the not-found screen, or did not render.
detail == LayoutIssue(renderedIssues, detailId)

\* Variant: the scoped callbacks pass another field of the bound record.
BoundIdFromTitle(issue) == issue.title

\* The id IssueDetailProvider passes to the global callbacks: issue.id.
BoundId(issue) == issue.id

(***************************************************************************)
(* The columns of the board                                                *)
(***************************************************************************)

\* The status of each <StatusColumn> of the home page.
BoardColumns == {"todo", "doing", "done", "closed"}

FilteredUnknownInTodo(cache, status) ==
  SelectSeq(cache, LAMBDA issue :
    \/ issue.status = status
    \/ status = "todo" /\ issue.status \notin BoardColumns)

\* issues.filter((issue) => issue.status === status)
Filtered(cache, status) == SelectSeq(cache, LAMBDA issue : issue.status = status)

\* filtered.map((issue) => <IssueCard key={issue.id} issue={issue} />): the
\* ids of the cards of a column, in order.
Cards(cache, status) ==
  [k \in 1..Len(Filtered(cache, status)) |-> Filtered(cache, status)[k].id]

\* {filtered.length}: the count in the head of a column.
Count(cache, status) == Len(Filtered(cache, status))

\* The columns that list the card of an issue.
ColumnsOf(cache, id) ==
  {s \in BoardColumns : \E k \in 1..Len(Cards(cache, s)) : Cards(cache, s)[k] = id}

(***************************************************************************)
(* Client inputs                                                           *)
(***************************************************************************)

\* Ids the callers pass: the id of a seed record, unknown once it is deleted.
ClientIds == {"1"}

\* The status the user selects in the form of the edit page.
FormStatuses == {"done"}

\* { title, status, description } of the edit form: the fields hold the
\* values of the issue the page got, and the user has selected status.
EditForm(issue, status) ==
  [title |-> issue.title, status |-> status, description |-> issue.description]

\* Collections handed to setIssues.
SeedCollections == {GetAll(SeedIssues)}

Pending(c) ==
  c.phase \in {"fetch", "fetched", "list", "listed", "refreshed", "lost"}
Settled(c) == c.phase \in {"resolved", "rejected"}

(***************************************************************************)
(* Client and network actions                                              *)
(***************************************************************************)

\* Variant: the check on isLoading is inside the try block, so the finally
\* block runs for a stopped call too.
FlagClearedWhenStopped(c, live) == IF c.skipped THEN FALSE ELSE TRUE

\* isLoading after the head of a callback: the check comes before the try
\* block, so a stopped call leaves the flag as it is; a call that passed it
\* does setIsLoading(true).
FlagAfterCheck(c, live) == IF c.skipped THEN live ELSE TRUE

\* A caller invokes a callback it got from the last render.
\* A continuation that is ready runs before anything else of the client
\* does: before React renders, before the next event of the user is handled
\* and before a caller makes its next call.  Only the answers that arrive
\* in the same task get in between.
ContinuationReady == resuming # <<>> \/ callers # <<>>

\* The history has room for one more entry besides those that the
\* handlers of the calls under way will push when the calls return.
RoomToPush ==
  LET WillPush(c) ==
        /\ \/ c.via = "scoped" /\ c.kind = "patch"
           \/ c.via = "form"
        /\ c.phase \notin {"resolved", "rejected", "lost"}
  IN Len(history) + Cardinality({i \in 1..Len(calls) : WillPush(calls[i])})
       + Len(callers) < MaxHistory

\* React renders with page p shown: the callers get callbacks that
\* captured the state, and the board and the layout of /issues/[id] show
\* the issues of the cache.
Shown(p) ==
  /\ renderedIsLoading' = isLoading'
  /\ renderedIssues' = clientIssues'
  /\ page' = p

\* React renders the state of the cache.  A call made on the router is a
\* transition: the page of the router's current entry is shown by this
\* render or by a later one.
Rendered == \E p \in {page, history'[Len(history')]} : Shown(p)

\* The handler of a click, a submit or a drop on the page shown makes call
\* c, the one call it makes, and awaits it.  A call that was stopped by the
\* check has settled: the handler runs on in the same task, calls the
\* router if it has a call to make, and nothing has set a state, so the
\* page stays as it was rendered.  Otherwise setIsLoading(true) is
\* rendered before the next event.
PageEvent(c) ==
  /\ ~ ContinuationReady
  /\ Len(calls) < MaxCalls
  /\ calls' = Append(calls, c)
  /\ isLoading' = FlagAfterCheck(c, isLoading)
  /\ history' = IF c.skipped THEN HandlerRunsOn(c, history) ELSE history
  /\ UNCHANGED <<clientIssues, resuming, callers>>
  /\ IF c.skipped
     THEN UNCHANGED <<renderedIsLoading, renderedIssues, page>>
     ELSE Rendered
  /\ UNCHANGED <<serverVars, processVars>>

\* A caller that is no handler of an event invokes a callback it got from
\* the last render.
Invoke(c) ==
  /\ ~ ContinuationReady
  /\ Len(calls) < MaxCalls
  /\ calls' = Append(calls, c)
  /\ isLoading' = FlagAfterCheck(c, isLoading)
  /\ UNCHANGED <<clientIssues, renderedIsLoading, renderedIssues, page, resuming, callers, history>>
  /\ UNCHANGED <<serverVars, processVars, dragged>>

CallRefresh ==
  /\ Invoke(refresh(renderedIsLoading, isLoading))

CallCreateIssue ==
  /\ Invoke(createIssue(FullFields, renderedIsLoading, isLoading))

CallPatchIssue ==
  \E id \in ClientIds :
    /\ Invoke(patchIssue(id, StatusOnly, "global", renderedIsLoading, isLoading))

CallDeleteIssue ==
  \E id \in ClientIds :
    /\ Invoke(deleteIssue(id, "global", renderedIsLoading, isLoading))

\* The user submits the form of the edit page: onSubmit calls
\* useIssueDetail().patchIssue({ title, status, description }).
onSubmit ==
  /\ detail.found
  /\ page = EditPath(detailId)
  /\ RoomToPush
  /\ \E status \in FormStatuses :
       PageEvent(patchIssue(BoundId(detail.issue), EditForm(detail.issue, status),
                            "scoped", renderedIsLoading, isLoading))
  /\ UNCHANGED dragged

\* The user clicks the delete button of the issue page: handleDelete calls
\* useIssueDetail().deleteIssue().
handleDelete ==
  /\ detail.found
  /\ page = IssuePath(detailId)
  /\ PageEvent(deleteIssue(BoundId(detail.issue), "scoped", renderedIsLoading,
                           isLoading))
  /\ UNCHANGED dragged

\* The user submits the form for a new issue: onSubmit of CreateIssuePage
\* calls createIssue({ title, status, description }).
onSubmitCreate ==
  /\ page = CreatePath
  /\ RoomToPush
  /\ PageEvent([createIssue(FullFields, renderedIsLoading, isLoading)
                  EXCEPT !.via = "form"])
  /\ UNCHANGED dragged

\* setIssues(collection)
CallSetIssues ==
  \E c \in SeedCollections :
    /\ ~ ContinuationReady
    /\ clientIssues # c
    /\ clientIssues' = c
    /\ UNCHANGED <<isLoading, renderedIsLoading, calls, renderedIssues, page, resuming, callers, history>>
    /\ UNCHANGED <<serverVars, processVars, dragged>>

\* React renders the providers and the page with the current state of
\* the cache, and with the router's current entry or still without it.
Render ==
  /\ ~ ContinuationReady
  /\ <<renderedIsLoading, renderedIssues, page>>
       # <<isLoading, clientIssues, history[Len(history)]>>
  /\ UNCHANGED <<clientIssues, isLoading, calls, resuming, callers, history>>
  /\ Rendered
  /\ UNCHANGED <<serverVars, processVars, dragged>>

\* The user has clicked a control of the page shown that calls the router:
\* the router has the history h.  The click sets no state of the cache and
\* the navigation is a transition, so the page stays as it was rendered,
\* with its controls, until a later render shows the page routed to.
Went(h) ==
  /\ ~ ContinuationReady
  /\ history' = h
  /\ UNCHANGED <<clientIssues, isLoading, renderedIsLoading, renderedIssues, page,
                 calls, resuming, callers>>
  /\ UNCHANGED <<serverVars, processVars, dragged>>

\* The user clicks a card of the board: router.push(`/issues/${issue.id}`).
\* The cards are those of the issues the board was rendered with.
Navigate ==
  \E id \in DetailIds :
    /\ page = BoardPath
    /\ ColumnsOf(renderedIssues, id) # {}
    /\ RoomToPush
    /\ Went(push(history, IssuePath(id)))

\* The user clicks the button of the board that leads to the form for a
\* new issue: router.push('/issues/create').
ClickCreateButton ==
  /\ page = BoardPath
  /\ RoomToPush
  /\ Went(push(history, CreatePath))

\* The user follows the link of the issue page to the edit page.
ClickEditLink ==
  /\ detail.found
  /\ page = IssuePath(detailId)
  /\ RoomToPush
  /\ Went(push(history, EditPath(detail.issue.id)))

\* The user clicks the BackButton of the issue page, the edit page or the
\* form for a new issue: router.back().  (A click that lands on the link
\* inside the button goes to its href first and back from there: the page
\* stays.)
ClickBackButton ==
  /\ Len(history) > 1
  /\ \/ detail.found
     \/ page = CreatePath
  /\ Went(back(history))

\* The user follows the link of the not-found screen: <Link href="/">.
ClickHomeLink ==
  /\ detailId # ""
  /\ ~ detail.found
  /\ RoomToPush
  /\ Went(push(history, BoardPath))

\* The server handles the request a call is waiting on.
ServerAnswer ==
  \E i \in 1..Len(calls) :
    LET c == calls[i]
        req == RequestOf(c)
        o == Route(issues, nextId, req)
    IN /\ c.phase \in {"fetch", "list"}
       /\ o.call.op = "create" => nextId < SeedNextId + MaxCreates
       /\ request' = req
       /\ Handle(o)
       /\ calls' = [calls EXCEPT ![i].resp = o.response,
                                 ![i].phase = IF c.phase = "fetch" THEN "fetched"
                                              ELSE "listed"]
       /\ UNCHANGED <<clientIssues, isLoading, renderedIsLoading, renderedIssues, page, resuming, callers, history>>
       /\ UNCHANGED <<processVars, dragged>>

\* The request is answered with a failure before it reaches a handler.
ServerFault ==
  \E i \in 1..Len(calls), f \in Faults :
    /\ calls[i].phase \in {"fetch", "list"}
    /\ calls' = [calls EXCEPT ![i].resp = f,
                              ![i].phase = IF calls[i].phase = "fetch" THEN "fetched"
                                           ELSE "listed"]
    /\ UNCHANGED <<clientIssues, isLoading, renderedIsLoading, renderedIssues, page, resuming, callers, history>>
    /\ UNCHANGED <<serverVars, processVars, dragged>>

\* The request will never be answered.
Lose ==
  \E i \in 1..Len(calls) :
    /\ calls[i].phase \in {"fetch", "list"}
    /\ calls' = [calls EXCEPT ![i].phase = "lost"]
    /\ UNCHANGED <<clientIssues, isLoading, renderedIsLoading, renderedIssues, page, resuming, callers, history>>
    /\ UNCHANGED <<serverVars, processVars, dragged>>

\* The answer to a call's own request arrives and the callback runs on.
\* The callbacks of the answers that arrive in one task run before the
\* handlers that await them resume.
ReceiveMutationResponse ==
  \E i \in 1..Len(calls) :
    LET c == AfterMutationResponse(calls[i], isLoading)
    IN /\ calls[i].phase = "fetched"
       /\ callers = <<>>
       /\ calls' = [calls EXCEPT ![i] = c]
       /\ isLoading' = IF Settled(c) THEN Finally(Ok(calls[i].resp)) ELSE TRUE
       /\ callers' = HandlerQueue(callers, [calls EXCEPT ![i] = c], i)
       /\ UNCHANGED <<clientIssues, renderedIsLoading, renderedIssues, page, resuming,
                      history>>
       /\ UNCHANGED <<serverVars, processVars, dragged>>

\* The answer to LIST arrives: refresh runs to its end, with its own
\* finally.
ReceiveListResponse ==
  \E i \in 1..Len(calls) :
    /\ calls[i].phase = "listed"
    /\ callers = <<>>
    /\ calls' = [calls EXCEPT ![i] = AfterRefreshEnded(calls[i])]
    /\ clientIssues' = CacheAfterList(clientIssues, calls[i].resp)
    /\ isLoading' = Finally(Ok(calls[i].resp))
    /\ resuming' = IF calls[i].kind = "refresh" THEN resuming
                   ELSE Append(resuming, i)
    /\ UNCHANGED <<renderedIsLoading, renderedIssues, page, callers, history>>
    /\ UNCHANGED <<serverVars, processVars, dragged>>

\* The await of refresh() resumes the mutating callback: it returns, or
\* throws the error of refresh on, through its own finally.  The handler
\* that awaits the callback runs on later.
ResumeAfterRefresh ==
  /\ resuming # <<>>
  /\ LET i == Head(resuming)
         c == AfterAwaitRefresh(calls[i])
     IN /\ calls[i].phase = "refreshed"
        /\ calls' = [calls EXCEPT ![i] = c]
        /\ isLoading' = Finally(Ok(calls[i].resp))
        /\ resuming' = Tail(resuming)
        /\ callers' = HandlerQueue(callers, [calls EXCEPT ![i] = c], i)
        /\ UNCHANGED <<clientIssues, renderedIsLoading, renderedIssues, page, history>>
        /\ UNCHANGED <<serverVars, processVars, dragged>>

\* The await of a handler of a page resumes, after the callbacks that were
\* ready: the handler calls the router.  The page that was rendered last
\* stays, with its controls, until React renders the page of the new
\* entry.
ResumeHandler ==
  /\ resuming = <<>>
  /\ callers # <<>>
  /\ history' = HandlerRunsOn(calls[Head(callers)], history)
  /\ callers' = Tail(callers)
  /\ UNCHANGED <<clientIssues, isLoading, renderedIsLoading, renderedIssues, page,
                 calls, resuming>>
  /\ UNCHANGED <<serverVars, processVars, dragged>>

ClientNext ==
  \/ CallRefresh
  \/ CallCreateIssue
  \/ CallPatchIssue
  \/ CallDeleteIssue
  \/ CallSetIssues
  \/ Render
  \/ ServerAnswer
  \/ ServerFault
  \/ Lose
  \/ ReceiveMutationResponse
  \/ ReceiveListResponse
  \/ ResumeAfterRefresh

\* One client and the server that answers it.
ClientSpec == Init /\ [][ClientNext]_vars

PageNext ==
  \/ Navigate
  \/ ClickCreateButton
  \/ ClickEditLink
  \/ ClickBackButton
  \/ ClickHomeLink
  \/ onSubmit
  \/ handleDelete
  \/ onSubmitCreate
  \/ Render
  \/ ServerAnswer
  \/ ServerFault
  \/ ReceiveMutationResponse
  \/ ReceiveListResponse
  \/ ResumeAfterRefresh
  \/ ResumeHandler

\* The pages of one client, and the server that answers it.
PageSpec == Init /\ [][PageNext]_vars

(***************************************************************************)
(* Vocabulary of the properties                                            *)
(***************************************************************************)

\* No two records of a collection have the same id.
UniqueIds(iss) ==
  \A i, j \in 1..Len(iss) : i # j => iss[i].id # iss[j].id

\* The request carries the headers the validator asks for.
JsonHeaders(req) ==
  req.contentType = "application/json" /\ req.contentLength # "0"

\* The request is a malformed CREATE/REPLACE request: wrong Content-Type,
\* Content-Length 0, a body that is not an object, or a missing key.
Malformed(req) ==
  \/ req.contentType # "application/json"
  \/ req.contentLength = "0"
  \/ req.body.kind # "object"
  \/ \E k \in {"title", "description", "status"} : k \notin DOMAIN req.body.fields

\* The store is what it was before the step.
StoreUnchanged == issues' = issues /\ nextId' = nextId

\* The first ids create hands out after the seed, written out.
ExpectedIds == <<"9", "10", "11", "12">>

\* Status values a client may send, one of them outside the closed set.
Statuses == {"todo", "doing", "done", "closed", "archived"}

(***************************************************************************)
(* C1..C10                                                                 *)
(***************************************************************************)

\* C1: in every reachable state no two records of the collection have the
\* same id.
C1_IdsUnique == UniqueIds(issues)

\* C2: a patch of an existing id i returns and stores a record whose id is
\* still i, and getById(i) still finds it, also when the partial carries an
\* id field of its own.
C2_PatchKeepsId ==
  (storeCall.op = "patch" /\ storeCall.found)
    => /\ storeCall.issue.id = storeCall.id
       /\ GetById(issues, storeCall.id).found

\* C3: the ids assigned by successive create calls are the decimal strings
\* of 9, 10, 11, ..., strictly increasing and never repeated, also after
\* deletes; nextId never decreases.
C3_State ==
  /\ \A k \in 1..Len(created) :
       /\ created[k] = String(8 + k)
       /\ k <= Len(ExpectedIds) => created[k] = ExpectedIds[k]
  /\ \A j, k \in 1..Len(created) : j < k => created[j] # created[k]

C3_Step ==
  /\ nextId' >= nextId
  /\ storeCall'.op = "create"
       => /\ nextId' > nextId
          /\ \A k \in 1..Len(created) : created[k] # storeCall'.id

C3_CreateIdsIncrease == [] C3_State /\ [][C3_Step]_vars

\* A second create has run after the record of the first was deleted.
C3_Witness ==
  /\ storeCall.op = "create"
  /\ Len(created) = 2
  /\ ~ Exists(issues, created[1])

\* C4: getAll() after a mutation is the prior collection with exactly that
\* mutation applied: create appends one record; update and patch of an
\* existing id replace the (first) record with that id in place; delete of
\* an existing id removes that record; no other record changes.
C4_Step ==
  LET before == GetAll(issues)
      after == GetAll(issues')
      call == storeCall'
      \* position of the record the call is addressed to
      at == CHOOSE i \in 0..Len(before) :
              \/ /\ i > 0
                 /\ before[i].id = call.id
                 /\ \A j \in 1..(i - 1) : before[j].id # call.id
              \/ /\ i = 0
                 /\ \A j \in 1..Len(before) : before[j].id # call.id
  IN /\ call.op = "create"
          => /\ Len(after) = Len(before) + 1
             /\ \A i \in 1..Len(before) : after[i] = before[i]
             /\ after[Len(after)] = call.issue
     /\ (call.op \in {"update", "patch"} /\ call.found)
          => /\ at > 0
             /\ Len(after) = Len(before)
             /\ after[at] = call.issue
             /\ \A i \in 1..Len(before) : i # at => after[i] = before[i]
     /\ (call.op = "delete" /\ call.found)
          => /\ at > 0
             /\ Len(after) = Len(before) - 1
             /\ \A i \in 1..(at - 1) : after[i] = before[i]
             /\ \A i \in at..Len(after) : after[i] = before[i + 1]

C4_MutationApplied == [][C4_Step]_vars

\* A record in the middle of a collection that grew by a create was deleted.
C4_Witness ==
  /\ storeCall.op = "delete"
  /\ storeCall.found
  /\ Len(created) > 0
  /\ Len(issues) = 8

\* C5: on an id that is not in the store, update and patch return the absent
\* value and delete returns false, the collection and nextId are unchanged,
\* and the same call repeated gives the same result.
C5_State ==
  \A id \in PathIds :
    ~ Exists(issues, id)
      => /\ \A b \in IssueBodies :
              LET u == Update(issues, nextId, id, b)
              IN /\ u.result = Absent
                 /\ u.issues = issues /\ u.nextId = nextId
                 /\ Update(u.issues, u.nextId, id, b).result = u.result
         /\ \A b \in PartialBodies :
              LET p == Patch(issues, nextId, id, b)
              IN /\ p.result = Absent
                 /\ p.issues = issues /\ p.nextId = nextId
                 /\ Patch(p.issues, p.nextId, id, b).result = p.result
         /\ LET d == Delete(issues, nextId, id)
            IN /\ d.deleted = FALSE
               /\ d.issues = issues /\ d.nextId = nextId
               /\ Delete(d.issues, d.nextId, id).deleted = d.deleted

C5_Step ==
  (storeCall'.op \in {"update", "patch", "delete"} /\ ~ Exists(issues, storeCall'.id))
    => /\ ~ storeCall'.found
       /\ storeCall'.issue = EmptyObject
       /\ StoreUnchanged

C5_AbsentIdIsNoOp == [] C5_State /\ [][C5_Step]_vars

\* An update addressed to an id that is not in the store has run.
C5_Witness ==
  /\ storeCall.op = "update"
  /\ ~ storeCall.found
  /\ ~ Exists(issues, storeCall.id)

\* C6: patch(id, {status: s}) on an existing record changes only that
\* record's status; PATCH /api/issues/{id} with body {status: s} answers 200
\* with the record having the same id, title and description and status s.
\* The PATCH is the handler the claim names, which takes the id from the
\* path.
C6_State ==
  \A id \in PathIds, s \in Statuses :
    Exists(issues, id)
      => LET at == FindIndex(issues, id) + 1
             p == Patch(issues, nextId, id, JsonObject([status |-> s]))
         IN /\ p.result.found
            /\ DOMAIN p.result.issue = DOMAIN issues[at]
            /\ \A k \in DOMAIN issues[at] :
                 p.result.issue[k] = IF k = "status" THEN s ELSE issues[at][k]
            /\ p.nextId = nextId
            /\ Len(p.issues) = Len(issues)
            /\ p.issues[at] = p.result.issue
            /\ \A i \in 1..Len(issues) : i # at => p.issues[i] = issues[i]

C6_Step ==
  ( /\ request'.method = "PATCH"
    /\ request'.handler = "path"
    /\ JsonHeaders(request')
    /\ request'.body = JsonObject(StatusOnly)
    /\ Exists(issues, request'.id) )
    => LET old == GetById(issues, request'.id).issue
       IN /\ response'.status = 200
          /\ response'.kind = "issue"
          /\ response'.issue.id = request'.id
          /\ response'.issue.title = old.title
          /\ response'.issue.description = old.description
          /\ response'.issue.status = "done"
          /\ GetById(issues', request'.id).issue = response'.issue
          /\ Len(issues') = Len(issues)
          /\ \A i \in 1..Len(issues) :
               i # FindIndex(issues, request'.id) + 1 => issues'[i] = issues[i]

C6_PatchStatusOnly == [] C6_State /\ [][C6_Step]_vars

\* PATCH with body {status: "done"} moved a record that was not done.
C6_Witness ==
  /\ request.method = "PATCH"
  /\ request.handler = "path"
  /\ request.body = JsonObject(StatusOnly)
  /\ response.status = 200
  /\ response.issue.id = "1"
  /\ response.issue.status = "done"
  /\ response.issue.title = SeedIssues[1].title

\* C7: after r = create(f), getById(r.id) returns f with id set to r.id.
C7_CreateRoundTrip ==
  storeCall.op = "create"
    => GetById(issues, storeCall.id)
         = Found(Merge(request.body.fields, [id |-> storeCall.id]))

\* C8 as stated: PUT, PATCH and DELETE addressed to an id that is not in the
\* store answer 400 with the not-found message and leave the store unchanged.
\* The handlers are those the claim names, which take the id from the path.
C8_Original_Step ==
  (/\ request'.method \in {"PUT", "PATCH", "DELETE"}
   /\ request'.handler = "path"
   /\ ~ Exists(issues, request'.id))
    => /\ response'.status = 400
       /\ response'.error = ErrNotFound
       /\ StoreUnchanged

C8_Original == [][C8_Original_Step]_vars

\* The request gets past the checks its handler makes before the store call.
PassesChecks(req) ==
  \/ req.method = "DELETE"
  \/ /\ req.method = "PATCH"
     /\ JsonHeaders(req)
     /\ req.body.kind # "invalid"
  \/ /\ req.method = "PUT"
     /\ ~ Malformed(req)

\* C8 amended: PUT, PATCH and DELETE addressed to an id that is not in the
\* store answer 400 with an error body, never 200, and leave the store
\* unchanged; the error is the not-found message when the request passes the
\* handler's request checks, and the message of the failed check otherwise.
C8_Step ==
  (/\ request'.method \in {"PUT", "PATCH", "DELETE"}
   /\ request'.handler = "path"
   /\ ~ Exists(issues, request'.id))
    => /\ response'.status = 400
       /\ response'.kind = "error"
       /\ StoreUnchanged
       /\ PassesChecks(request') => response'.error = ErrNotFound
       /\ ~ PassesChecks(request')
            => response'.error \in {ErrInvalidRequest, ErrSyntax, ErrInvalidIssue}

C8_NotFoundIs400 == [][C8_Step]_vars

\* A DELETE of an unknown id was answered with the not-found error.
C8_Witness ==
  /\ request.method = "DELETE"
  /\ request.handler = "path"
  /\ request.id = "999"
  /\ response.status = 400
  /\ response.error = ErrNotFound

\* C9: a malformed CREATE or REPLACE request is answered 400 with an error
\* message and no store operation is executed for it.
C9_Step ==
  (request'.method \in {"POST", "PUT"} /\ Malformed(request'))
    => /\ response'.status = 400
       /\ response'.kind = "error"
       /\ response'.error # ""
       /\ storeCall'.op = "none"
       /\ StoreUnchanged

C9_MalformedNeverReachesStore == [][C9_Step]_vars

\* A PUT to an existing id whose body lacks the status key was rejected.
C9_Witness ==
  /\ request.method = "PUT"
  /\ request.id = "1"
  /\ JsonHeaders(request)
  /\ request.body = JsonObject(NoStatus)
  /\ response.status = 400
  /\ Exists(issues, "1")

\* C10: the store starts with 8 records, ids "1".."8"; the first well-formed
\* POST answers 200 with exactly {id: "9", title, description, status} and,
\* on the seeded store, leaves 9 records for GET; every successful CREATE on
\* n records makes LIST return n+1 records, the last being the created one.
C10_Seeded ==
  /\ Len(issues) = 8
  /\ \A i \in 1..8 : issues[i].id = Digit(i)
  /\ created = <<>>

C10_Step ==
  /\ (request'.method = "POST" /\ ~ Malformed(request'))
       => /\ response'.status = 200
          /\ response'.kind = "issue"
          /\ GET(issues', nextId').response.status = 200
          /\ LET list == GET(issues', nextId').response.list
             IN /\ Len(list) = Len(issues) + 1
                /\ list[Len(list)] = response'.issue
                /\ \A i \in 1..Len(issues) : list[i] = issues[i]
          /\ (created = <<>> /\ request'.body = JsonObject(FullFields))
               => response'.issue
                    = [id |-> "9", title |-> "T", description |-> "D",
                       status |-> "todo"]
          /\ issues = SeedIssues => Len(issues') = 9
  /\ request'.method = "GET"
       => /\ response'.status = 200
          /\ response'.list = issues
          /\ StoreUnchanged

C10_CreateThenList == C10_Seeded /\ [][C10_Step]_vars

\* The first POST on the seeded store was answered with id "9".
C10_Witness ==
  /\ request.method = "POST"
  /\ response.status = 200
  /\ response.issue.id = "9"
  /\ Len(issues) = 9
  /\ created = <<"9">>


(***************************************************************************)
(* Vocabulary of the properties of the client cache                        *)
(***************************************************************************)

Mutating(c) == c.kind \in {"create", "patch", "delete"}

\* The call has sent a request and has not settled.
InFlight(c) == ~ c.skipped /\ Pending(c)

\* Call i is invoked in this step.
InvokedNow(i) == i = Len(calls') /\ Len(calls') = Len(calls) + 1

\* Call i settles in this step, as a return or as a throw.
SettlesNow(i) ==
  /\ i \in 1..Len(calls')
  /\ Settled(calls'[i])
  /\ i \in 1..Len(calls) => ~ Settled(calls[i])

ResolvesNow(i) == SettlesNow(i) /\ calls'[i].phase = "resolved"

\* What a mutating call is for can be read in a collection: the created
\* record is present, the patched fields have the new values, the deleted
\* record is gone.
Visible(c, collection) ==
  CASE c.kind = "create" ->
         /\ "id" \in DOMAIN c.result
         /\ GetById(collection, c.result.id).found
    [] c.kind = "patch" ->
         /\ GetById(collection, c.id).found
         /\ \A k \in DOMAIN c.updates :
              GetById(collection, c.id).issue[k] = c.updates[k]
    [] c.kind = "delete" -> ~ GetById(collection, c.id).found

(***************************************************************************)
(* C11: whenever a createIssue, patchIssue or deleteIssue call resolves    *)
(* successfully, the cache read right after it equals the collection of    *)
(* the store and shows the mutation: the created record is present, the    *)
(* patched fields are visible, the deleted record is gone.                 *)
(* Fails: a patchIssue or deleteIssue stopped by the check on isLoading    *)
(* returns normally, without a request.                                    *)
(***************************************************************************)
C11_Step ==
  \A i \in 1..Len(calls') :
    (ResolvesNow(i) /\ Mutating(calls'[i])) =>
      /\ clientIssues' = GetAll(issues')
      /\ Visible(calls'[i], clientIssues')

C11_ResolvedMutationIsVisible == [][C11_Step]_vars

(***************************************************************************)
(* C12: in every reachable state at most one mutating operation            *)
(* (createIssue, patchIssue, deleteIssue) has sent its request and not yet *)
(* settled, whatever the order of the invocations, two invocations before  *)
(* the provider re-renders included.                                       *)
(* Fails: both invocations test the isLoading of the same render.          *)
(***************************************************************************)
C12_OneMutationInFlight ==
  Cardinality({i \in 1..Len(calls) : Mutating(calls[i]) /\ InFlight(calls[i])}) <= 1

(***************************************************************************)
(* C13: a createIssue, patchIssue or deleteIssue invoked while another     *)
(* operation of the cache is in flight is rejected at once with a failure  *)
(* for its caller: it sends no request and does not resolve as a success.  *)
(* Fails: patchIssue and deleteIssue return normally, and a callback of a  *)
(* render older than the operation in flight is not stopped at all.        *)
(***************************************************************************)
C13_Step ==
  \A i \in 1..Len(calls') :
    ( /\ InvokedNow(i)
      /\ Mutating(calls'[i])
      /\ \E j \in 1..Len(calls) : InFlight(calls[j]) )
    => /\ calls'[i].phase = "rejected"
       /\ calls'[i].error # ""
       /\ calls'[i].sent = <<>>

C13_BusyMutationIsRejected == [][C13_Step]_vars

(***************************************************************************)
(* C14: a refresh() invoked while an earlier refresh() has not settled     *)
(* sends no LIST request, leaves the cache unchanged and resolves without  *)
(* error, for every timing of the second call relative to the first.       *)
(* Fails: a second refresh() of the same render sends a second LIST.       *)
(***************************************************************************)
C14_Step ==
  \A i \in 1..Len(calls') :
    ( /\ InvokedNow(i)
      /\ calls'[i].kind = "refresh"
      /\ \E j \in 1..Len(calls) : calls[j].kind = "refresh" /\ InFlight(calls[j]) )
    => /\ calls'[i].sent = <<>>
       /\ calls'[i].phase = "resolved"
       /\ clientIssues' = clientIssues

C14_SecondRefreshIsNoOp == [][C14_Step]_vars

(***************************************************************************)
(* C15: every refresh, createIssue, patchIssue and deleteIssue call that   *)
(* passed the check on isLoading and settles, with success or with an      *)
(* error, leaves isLoading false; hence isLoading is false in every state  *)
(* where no operation is pending.                                          *)
(***************************************************************************)
C15_State == (\A i \in 1..Len(calls) : ~ InFlight(calls[i])) => isLoading = FALSE

C15_Step ==
  \A i \in 1..Len(calls') :
    (SettlesNow(i) /\ ~ calls'[i].skipped) => isLoading' = FALSE

C15_FlagClearedOnExit == [] C15_State /\ [][C15_Step]_vars

\* One call has thrown and another has returned after its requests, and
\* nothing is pending.
C15_Witness ==
  /\ \E i \in 1..Len(calls) : calls[i].phase = "rejected" /\ ~ calls[i].skipped
  /\ \E i \in 1..Len(calls) : calls[i].phase = "resolved" /\ ~ calls[i].skipped
  /\ \A i \in 1..Len(calls) : ~ InFlight(calls[i])
  /\ isLoading = FALSE

(***************************************************************************)
(* C16: the issues collection of the cache changes only when a refresh     *)
(* completes successfully, and then it becomes the list of the LIST        *)
(* response, or when setIssues is called. A mutating call whose request    *)
(* gets a non-OK response leaves the cache as it was, and the answer to a  *)
(* mutation request is never merged into the cache.                        *)
(***************************************************************************)
C16_Step ==
  /\ clientIssues' # clientIssues =>
       \/ \E i \in 1..Len(calls) :
            /\ calls[i].phase = "listed"
            /\ Ok(calls[i].resp)
            /\ calls'[i].phase = (IF Mutating(calls[i]) THEN "refreshed"
                                  ELSE "resolved")
            /\ clientIssues' = calls[i].resp.list
       \/ calls' = calls /\ clientIssues' \in SeedCollections
  /\ \A i \in 1..Len(calls) :
       (calls[i].phase \in {"fetched", "refreshed"} /\ calls'[i] # calls[i]) =>
         clientIssues' = clientIssues
  /\ \A i \in 1..Len(calls') :
       (SettlesNow(i) /\ calls'[i].phase = "rejected") => clientIssues' = clientIssues

C16_CacheChangesOnlyByRefresh == [][C16_Step]_vars

\* A mutating call has thrown on a non-OK response, another has returned,
\* and the cache holds a list of the server that is not the initial one.
C16_Witness ==
  /\ \E i \in 1..Len(calls) :
       /\ Mutating(calls[i]) /\ calls[i].phase = "rejected"
       /\ ~ calls[i].skipped /\ ~ Ok(calls[i].resp)
  /\ \E i \in 1..Len(calls) :
       Mutating(calls[i]) /\ calls[i].phase = "resolved" /\ ~ calls[i].skipped
  /\ clientIssues = GetAll(issues)
  /\ clientIssues # GetAll(SeedIssues)

(***************************************************************************)
(* C17: for every successful createIssue the POST request is sent and      *)
(* answered, then a LIST request is sent and answered and the cache is     *)
(* replaced, and only then the call returns the created record; the        *)
(* refresh started inside a mutating call is never skipped by the check on *)
(* the flag the call itself set. The same order holds for patchIssue and   *)
(* deleteIssue.                                                            *)
(***************************************************************************)
C17_Order(c) ==
  << "sent " \o Method(c.kind), "answered " \o Method(c.kind), "sent GET",
     "answered GET", "cache replaced", "returned" >>

C17_State ==
  \A i \in 1..Len(calls) :
    (Mutating(calls[i]) /\ calls[i].phase = "resolved" /\ ~ calls[i].skipped) =>
      /\ calls[i].trace = C17_Order(calls[i])
      /\ calls[i].sent = <<Method(calls[i].kind), "GET">>

C17_Step ==
  \A i \in 1..Len(calls) :
    /\ ( /\ Mutating(calls[i])
         /\ calls[i].phase = "fetched"
         /\ Ok(calls[i].resp)
         /\ calls'[i] # calls[i] )
       => /\ calls'[i].phase = "list"
          /\ calls'[i].sent = Append(calls[i].sent, "GET")
          /\ calls[i].kind = "create" => calls'[i].result = calls[i].resp.issue
    /\ (Mutating(calls[i]) /\ calls[i].phase = "listed" /\ calls'[i] # calls[i])
       => /\ calls'[i].phase = "refreshed"
          /\ Ok(calls[i].resp) => clientIssues' = calls[i].resp.list
          /\ calls'[i].result = calls[i].result
    /\ (Mutating(calls[i]) /\ ~ calls[i].skipped /\ ResolvesNow(i))
       => /\ calls[i].phase = "refreshed"
          /\ Ok(calls[i].resp)
          /\ calls'[i].result = calls[i].result

C17_MutationThenRefreshThenReturn == [] C17_State /\ [][C17_Step]_vars

\* A createIssue and a patchIssue have returned after their requests, and
\* the record the createIssue returned is in the cache.
C17_Witness ==
  /\ \E i \in 1..Len(calls) :
       /\ calls[i].kind = "create" /\ calls[i].phase = "resolved"
       /\ "id" \in DOMAIN calls[i].result
       /\ GetById(clientIssues, calls[i].result.id).found
  /\ \E i \in 1..Len(calls) :
       calls[i].kind = "patch" /\ calls[i].phase = "resolved" /\ ~ calls[i].skipped

(***************************************************************************)
(* C18: every failure of a cache operation, a non-OK response to its own   *)
(* request or to the LIST request of its refresh, reaches the caller as    *)
(* one error that carries the error message of the server or the fallback  *)
(* with the HTTP status; no operation resolves as a success after one of   *)
(* its requests failed, and no request is sent again.                      *)
(***************************************************************************)
C18_Message(c, prefix) ==
  IF c.resp.kind = "error"
  THEN c.resp.error
  ELSE prefix \o " (HTTP " \o String(c.resp.status) \o ")"

C18_State ==
  \A i \in 1..Len(calls) :
    /\ (Settled(calls[i]) /\ ~ calls[i].skipped /\ ~ Ok(calls[i].resp)) =>
         /\ calls[i].phase = "rejected"
         /\ calls[i].error # ""
    /\ calls[i].sent \in {<<>>, <<Method(calls[i].kind)>>,
                          <<Method(calls[i].kind), "GET">>}

C18_Step ==
  \A i \in 1..Len(calls) :
    /\ (calls[i].phase \in {"fetched", "listed", "refreshed"} /\ ~ Ok(calls[i].resp)
          /\ calls'[i] # calls[i])
       => /\ calls'[i].sent = calls[i].sent
          /\ \/ \* the error of refresh is on its way to the caller
                /\ Mutating(calls[i])
                /\ calls[i].phase = "listed"
                /\ calls'[i].phase = "refreshed"
                /\ calls'[i].resp = calls[i].resp
             \/ /\ ~ (Mutating(calls[i]) /\ calls[i].phase = "listed")
                /\ calls'[i].phase = "rejected"
                /\ calls'[i].error =
                     C18_Message(calls[i],
                                 IF calls[i].phase = "fetched"
                                 THEN FallbackPrefix(calls[i].kind)
                                 ELSE FallbackPrefix("refresh"))
    /\ Settled(calls[i]) => calls'[i] = calls[i]

C18_FailureReachesCaller == [] C18_State /\ [][C18_Step]_vars

\* One call has thrown the message of a route handler, another the
\* fallback for an answer that is not JSON.
C18_Witness ==
  /\ \E i \in 1..Len(calls) :
       /\ calls[i].phase = "rejected" /\ ~ calls[i].skipped
       /\ calls[i].resp.status \in {400, 404}
       /\ calls[i].error = ErrNotFound
  /\ \E i \in 1..Len(calls) :
       /\ calls[i].phase = "rejected" /\ ~ calls[i].skipped
       /\ calls[i].resp = FaultHtml
       /\ calls[i].error \in
            {FallbackPrefix(k) \o " (HTTP 500)" : k \in {calls[i].kind, "refresh"}}

(***************************************************************************)
(* C19: if a request sent by a cache operation never receives a response,  *)
(* isLoading stays true forever and every createIssue, patchIssue and      *)
(* deleteIssue invoked afterwards sends no request.                        *)
(* Fails: a call that passed the check before the re-render settles and    *)
(* clears the flag, and the callbacks of the next render send requests.    *)
(***************************************************************************)
C19_Lost == \E j \in 1..Len(calls) : calls[j].phase = "lost"

C19_State == C19_Lost => isLoading = TRUE

C19_Step ==
  \A i \in 1..Len(calls') :
    (C19_Lost /\ InvokedNow(i) /\ Mutating(calls'[i])) => calls'[i].sent = <<>>

C19_LostRequestBlocksForever == [] C19_State /\ [][C19_Step]_vars

(***************************************************************************)
(* C20: the scoped view bound to id b is a projection of the cache: a      *)
(* scoped patchIssue(u) does what the global patchIssue(b, u) does, and a  *)
(* scoped deleteIssue() what the global deleteIssue(b) does.  b is the id  *)
(* of the record the view was mounted with.  The call is stopped by the    *)
(* check on the flag of the render that made it; otherwise it sets the     *)
(* flag and sends PATCH /api/issues/b with {id: b, ...u}, respectively     *)
(* DELETE /api/issues/b, which changes record b of the store and no other  *)
(* record; a successful answer is followed by the GET of refresh, whose    *)
(* list replaces the cache, and the cache changes in no other step; the    *)
(* caller gets the return after that refresh, or the error of the request  *)
(* that failed, and the flag is cleared.  The view holds nothing but the   *)
(* bound record.                                                           *)
(***************************************************************************)
C20_State ==
  /\ detail.found => (detailId # "" /\ detail.issue.id = detailId)
  /\ \A i \in 1..Len(calls) :
       calls[i].via = "scoped" =>
         /\ calls[i].kind \in {"patch", "delete"}
         /\ calls[i].skipped => (calls[i].phase = "resolved" /\ calls[i].sent = <<>>)

\* The body of the PATCH of patchIssue(b, u): {id: b, ...u}.
C20_Body(b, u) ==
  JsonObject([k \in {"id"} \cup DOMAIN u |-> IF k \in DOMAIN u THEN u[k] ELSE b])

\* The store after record b, the first with that id, got the fields of u,
\* and after it was removed.
C20_Patched(iss, b, u) ==
  [k \in 1..Len(iss) |->
     IF iss[k].id = b /\ \A j \in 1..(k - 1) : iss[j].id # b
     THEN [x \in DOMAIN iss[k] \cup DOMAIN u |->
             IF x \in DOMAIN u THEN u[x] ELSE iss[k][x]]
     ELSE iss[k]]

C20_Removed(iss, b) ==
  LET at == CHOOSE k \in 1..Len(iss) :
              iss[k].id = b /\ \A j \in 1..(k - 1) : iss[j].id # b
  IN [k \in 1..(Len(iss) - 1) |-> IF k < at THEN iss[k] ELSE iss[k + 1]]

\* The view's callback is invoked: the call is the one of the global
\* callback of the same render for the bound id.
C20_Invoked(i) ==
  /\ detail.found
  /\ calls'[i].id = detail.issue.id
  /\ calls'[i].kind \in {"patch", "delete"}
  /\ calls'[i].kind = "delete" => calls'[i].updates = EmptyObject
  /\ calls'[i].skipped = renderedIsLoading
  /\ IF renderedIsLoading
     THEN /\ calls'[i].phase = "resolved"
          /\ calls'[i].sent = <<>>
          /\ isLoading' = isLoading
     ELSE /\ calls'[i].phase = "fetch"
          /\ calls'[i].sent = <<IF calls'[i].kind = "patch" THEN "PATCH" ELSE "DELETE">>
          /\ isLoading' = TRUE
  /\ UNCHANGED <<clientIssues, issues, nextId>>

\* The call's own request is answered: by the server, which has applied it
\* to record b, or by a failure on the way.
C20_Answered(i) ==
  LET c == calls[i]
  IN /\ calls'[i].phase = "fetched"
     /\ nextId' = nextId
     /\ IF calls'[i].resp \in Faults
        THEN issues' = issues
        ELSE /\ request'.method = (IF c.kind = "patch" THEN "PATCH" ELSE "DELETE")
             /\ request'.id = c.id
             /\ c.kind = "patch" => request'.body = C20_Body(c.id, c.updates)
             /\ calls'[i].resp = response'
             /\ IF Exists(issues, c.id)
                THEN /\ Ok(response')
                     /\ issues' = (IF c.kind = "patch"
                                   THEN C20_Patched(issues, c.id, c.updates)
                                   ELSE C20_Removed(issues, c.id))
                ELSE /\ ~ Ok(response')
                     /\ response'.error = ErrNotFound
                     /\ issues' = issues

\* The call runs on after an answer, as the global callback does.
C20_RunsOn(i) ==
  LET c == calls[i]
  IN \/ /\ c.phase = "fetch"
        /\ C20_Answered(i)
     \/ /\ c.phase = "fetched"
        /\ UNCHANGED <<clientIssues, issues>>
        /\ IF Ok(c.resp)
           THEN /\ calls'[i].phase = "list"
                /\ calls'[i].sent = Append(c.sent, "GET")
                /\ isLoading' = TRUE
           ELSE /\ calls'[i].phase = "rejected"
                /\ calls'[i].error = C18_Message(c, FallbackPrefix(c.kind))
                /\ calls'[i].sent = c.sent
                /\ isLoading' = FALSE
     \/ /\ c.phase = "list"
        /\ calls'[i].phase = "listed"
        /\ UNCHANGED <<clientIssues, issues>>
        /\ calls'[i].resp \notin Faults => calls'[i].resp.list = GetAll(issues)
     \/ /\ c.phase = "listed"
        /\ calls'[i].phase = "refreshed"
        /\ clientIssues' = (IF Ok(c.resp) THEN c.resp.list ELSE clientIssues)
        /\ isLoading' = FALSE
        /\ issues' = issues
     \/ /\ c.phase = "refreshed"
        /\ UNCHANGED <<clientIssues, issues>>
        /\ isLoading' = FALSE
        /\ calls'[i].sent = c.sent
        /\ IF Ok(c.resp)
           THEN calls'[i].phase = "resolved" /\ calls'[i].error = ""
           ELSE /\ calls'[i].phase = "rejected"
                /\ calls'[i].error = C18_Message(c, FallbackPrefix("refresh"))

C20_Step ==
  /\ \A i \in 1..Len(calls') :
       /\ (InvokedNow(i) /\ calls'[i].via = "scoped") => C20_Invoked(i)
       /\ (i \in 1..Len(calls) /\ calls'[i] # calls[i]) =>
            /\ calls'[i].via = calls[i].via
            /\ calls'[i].id = calls[i].id
            /\ calls'[i].updates = calls[i].updates
            /\ calls[i].via = "scoped" => C20_RunsOn(i)
  /\ clientIssues' # clientIssues =>
       \E i \in 1..Len(calls) : calls[i].phase = "listed" /\ calls'[i].phase = "refreshed"
  /\ issues' # issues =>
       \E i \in 1..Len(calls) : calls[i].phase = "fetch" /\ calls'[i].phase = "fetched"

C20_ScopedIsGlobalWithBoundId == [] C20_State /\ [][C20_Step]_vars

\* A scoped patchIssue and a scoped deleteIssue have returned after their
\* requests, the page of the bound issue is still shown, and the bound
\* record is gone from the store and the cache.
C20_Witness ==
  /\ \E i \in 1..Len(calls) :
       /\ calls[i].via = "scoped" /\ calls[i].kind = "patch"
       /\ calls[i].phase = "resolved" /\ ~ calls[i].skipped
  /\ \E i \in 1..Len(calls) :
       /\ calls[i].via = "scoped" /\ calls[i].kind = "delete"
       /\ calls[i].phase = "resolved" /\ ~ calls[i].skipped
       /\ calls[i].id = detailId
       /\ Visible(calls[i], clientIssues)
       /\ Visible(calls[i], GetAll(issues))

(***************************************************************************)
(* C21, as stated: in every state in which the scoped view is mounted, its *)
(* bound issue is the record of the cache with the id of the route; once   *)
(* the cache lacks that id the view is not mounted and the not-found       *)
(* screen is shown.                                                        *)
(* Fails: setIssues(data) of a refresh changes the cache in a continuation *)
(* and the view that was rendered before stays mounted with the earlier    *)
(* record until React renders again.  After a scoped deleteIssue that      *)
(* succeeded, handleDelete runs on in that interval and replaces the       *)
(* route: a render that shows the new entry at once shows the board and    *)
(* never the not-found screen.                                             *)
(***************************************************************************)
C21_MountedViewIsCacheRecord ==
  /\ detail.found =>
       \E k \in 1..Len(clientIssues) :
         /\ clientIssues[k] = detail.issue
         /\ clientIssues[k].id = detailId
  /\ (detailId # "" /\ ~ Exists(clientIssues, detailId)) => ~ detail.found

(***************************************************************************)
(* C21, amended: the layout binds the view when it renders.  In every      *)
(* state the mounted view holds the first record with the id of the page   *)
(* shown in the issues of the last render, and the not-found screen is     *)
(* shown only for an id those issues lack.  Each render takes the issues   *)
(* of the cache, and the page it shows is the one shown before or the      *)
(* current entry of the router.  A refresh that replaces the cache renders *)
(* nothing: the page and the mounted view stay until the next render.  The *)
(* handler of a scoped deleteIssue that succeeded makes the board the      *)
(* current entry without a render: the render that follows shows the       *)
(* not-found screen or the board.                                          *)
(***************************************************************************)
\* React renders in this step.
C21_Renders ==
  <<renderedIsLoading, renderedIssues, page>>'
    # <<renderedIsLoading, renderedIssues, page>>

C21_State ==
  /\ detail.found =>
       /\ detailId # ""
       /\ page \in {IssuePath(detailId), EditPath(detailId)}
       /\ \E k \in 1..Len(renderedIssues) :
            /\ renderedIssues[k] = detail.issue
            /\ renderedIssues[k].id = detailId
            /\ \A j \in 1..(k - 1) : renderedIssues[j].id # detailId
  /\ (detailId # "" /\ ~ detail.found) => ~ Exists(renderedIssues, detailId)

C21_Step ==
  /\ C21_Renders =>
       /\ renderedIssues' = clientIssues'
       /\ page' \in {page, history'[Len(history')]}
       /\ detail'.found <=> (detailId' # "" /\ Exists(clientIssues', detailId'))
       /\ detail'.found =>
            \E k \in 1..Len(clientIssues') :
              /\ clientIssues'[k] = detail'.issue
              /\ \A j \in 1..(k - 1) : clientIssues'[j].id # detailId'
  /\ clientIssues' # clientIssues => (~ C21_Renders /\ detail' = detail)
  /\ \A i \in 1..Len(calls) :
       ( /\ calls[i].via = "scoped" /\ calls[i].kind = "delete"
         /\ calls[i].phase = "resolved" /\ ~ calls[i].skipped
         /\ callers # <<>> /\ Head(callers) = i
         /\ callers' # callers )
       => /\ history'[Len(history')] = BoardPath
          /\ ~ C21_Renders

C21_ViewBoundAtRender == [] C21_State /\ [][C21_Step]_vars

\* A scoped deleteIssue has returned and the cache has no record "1" any
\* more; the layout has rendered the page of issue "1" with that cache:
\* the view is not mounted and the not-found screen is shown.
C21_Witness ==
  /\ page = IssuePath("1")
  /\ \E i \in 1..Len(calls) :
       /\ calls[i].via = "scoped" /\ calls[i].kind = "delete"
       /\ calls[i].phase = "resolved" /\ ~ calls[i].skipped
  /\ ~ Exists(clientIssues, "1")
  /\ ~ detail.found

(***************************************************************************)
(* C22: DELETE /api/issues/{id} for an id that is in the store, sent with  *)
(* no body, answers 200 with {success: true} and removes exactly that      *)
(* record; afterwards exists(id) is false and a second DELETE of the same  *)
(* id answers 400.                                                         *)
(* Fails: the DELETE handler that reads the id from the body answers 400   *)
(* to a request without body; and with the handler that reads the path,    *)
(* after a PATCH whose body carried an id, two records share the id:       *)
(* DELETE removes the first and exists(id) is still true.                  *)
(***************************************************************************)
\* The request has neither headers nor body, as the client sends it.
C22_NoBody(req) == req.contentType = "" /\ req.contentLength = ""

C22_Step ==
  LET id == request'.id
  IN /\ (request'.method = "DELETE" /\ C22_NoBody(request') /\ Exists(issues, id)) =>
          /\ response' = SuccessResponse
          /\ response'.status = 200
          /\ \E k \in 1..Len(issues) :
               /\ issues[k].id = id
               /\ issues' = SubSeq(issues, 1, k - 1) \o SubSeq(issues, k + 1, Len(issues))
          /\ ~ Exists(issues', id)
     /\ (request'.method = "DELETE" /\ C22_NoBody(request') /\ ~ Exists(issues, id)) =>
          /\ response'.status = 400
          /\ issues' = issues

C22_DeleteRemovesTheRecord == [][C22_Step]_vars

(***************************************************************************)
(* C23: update(id, f) on an existing id replaces the whole record by f     *)
(* with id set to id: fields of the old record that f does not carry are   *)
(* gone, an id inside f is overridden, the record keeps its position, and  *)
(* PUT /api/issues/{id} answers 200 with that record.                      *)
(***************************************************************************)
C23_Step ==
  (request'.method = "PUT" /\ ~ Malformed(request') /\ Exists(issues, request'.id)) =>
    LET id == request'.id
        f == request'.body.fields
        k == CHOOSE i \in 1..Len(issues) :
               issues[i].id = id /\ \A j \in 1..(i - 1) : issues[j].id # id
        r == issues'[k]
    IN /\ Len(issues') = Len(issues)
       /\ \A i \in 1..Len(issues) : i # k => issues'[i] = issues[i]
       /\ DOMAIN r = DOMAIN f \cup {"id"}
       /\ r.id = id
       /\ \A key \in DOMAIN f \ {"id"} : r[key] = f[key]
       /\ response'.status = 200
       /\ response'.issue = r
       /\ storeCall'.op = "update" /\ storeCall'.issue = r
       /\ nextId' = nextId

C23_UpdateReplacesWholeRecord == [][C23_Step]_vars

\* A PUT has replaced a record that is not the first one, with a body whose
\* id is not the id of the path, while another record carries a key that is
\* not one of the Issue type.
C23_Witness ==
  /\ request.method = "PUT"
  /\ storeCall.op = "update" /\ storeCall.found
  /\ "id" \in DOMAIN request.body.fields
  /\ request.body.fields.id # request.id
  /\ storeCall.issue.id = request.id
  /\ \E i \in 1..Len(issues) : "assignee" \in DOMAIN issues[i]

(***************************************************************************)
(* The store called directly, and the arrays getAll() hands out            *)
(*                                                                         *)
(* Arrays are objects: a caller that got an array may change it in place.  *)
(* returned.ref tells which array the caller holds: "copy", a new array of *)
(* its own, or "store", the array IssueStorage.issues itself.              *)
(***************************************************************************)

\* getAll() that returns this.issues.
GetAllRefStore == "store"

\* getAll(): return [...this.issues], a new array.
GetAllRef == "copy"

\* array.push(x), array.pop(), array.reverse()
ArrayPush(a, x) == Append(a, x)
ArrayPop(a) == SubSeq(a, 1, Len(a) - 1)
ArrayReverse(a) == [i \in 1..Len(a) |-> a[Len(a) + 1 - i]]

\* What a caller may turn the array it holds into.
CallerMutations(a) ==
  {ArrayPush(a, Issue("x", "pushed by the caller", "descx", "todo")),
   ArrayPop(a), ArrayReverse(a)} \ {a}

\* The store operation ran: the store and the operation are what it left.
Ran(op, id, r) ==
  /\ issues' = r.issues
  /\ nextId' = r.nextId
  /\ storeCall' = StoreCall(op, id, r.result)
  /\ created' = IF op = "create" THEN Append(created, r.result.issue.id) ELSE created
  /\ UNCHANGED <<request, response, returned, awaiting, log>>
  /\ UNCHANGED clientVars

\* storage.getAll(), as RootLayout calls it
CallGetAll ==
  /\ returned' = [ref |-> GetAllRef, value |-> GetAll(issues), fresh |-> TRUE]
  /\ storeCall' = [op |-> "getAll", id |-> "", found |-> FALSE, issue |-> EmptyObject]
  /\ UNCHANGED <<issues, nextId, request, response, created, awaiting, log>>
  /\ UNCHANGED clientVars

\* The caller changes the array it got, in place.
CallerMutates ==
  \E a \in CallerMutations(returned.value) :
    /\ returned.ref # "none"
    /\ returned.fresh
    /\ returned' = [returned EXCEPT !.value = a, !.fresh = FALSE]
    /\ issues' = IF returned.ref = "store" THEN a ELSE issues
    /\ storeCall' = NoCall
    /\ UNCHANGED <<nextId, request, response, created, awaiting, log>>
    /\ UNCHANGED clientVars

\* storage.create(issue)
CallCreate ==
  /\ nextId < SeedNextId + MaxCreates
  /\ Ran("create", String(nextId), Create(issues, nextId, JsonObject(FullFields)))

\* storage.update(id, issue)
CallUpdate ==
  \E id \in PathIds :
    /\ Ran("update", id, Update(issues, nextId, id, JsonObject(FullFields)))

\* storage.patch(id, partialIssue)
CallPatch ==
  \E id \in PathIds, f \in {StatusOnly, IdOnly} :
    /\ Ran("patch", id, Patch(issues, nextId, id, JsonObject(f)))

\* storage.delete(id)
CallDelete ==
  \E id \in PathIds :
    LET d == Delete(issues, nextId, id)
    IN /\ issues' = d.issues
       /\ nextId' = d.nextId
       /\ storeCall' = [op |-> "delete", id |-> id, found |-> d.deleted,
                        issue |-> EmptyObject]
       /\ UNCHANGED <<request, response, created, returned, awaiting, log>>
       /\ UNCHANGED clientVars

StoreNext ==
  \/ CallGetAll
  \/ CallerMutates
  \/ CallCreate
  \/ CallUpdate
  \/ CallPatch
  \/ CallDelete

\* The callers of the store inside the server process.
StoreSpec == Init /\ [][StoreNext]_vars

(***************************************************************************)
(* C24: getAll() returns a new sequence each time: adding, removing or     *)
(* reordering elements of a returned sequence never changes what a later   *)
(* getAll() returns; and getAll() lists the records in the order of their  *)
(* creation: create appends, update and patch keep the position of the     *)
(* record, delete keeps the relative order of the others.                  *)
(***************************************************************************)
\* b is a with the element at position k taken out.
C24_Without(a, b, k) ==
  /\ Len(b) = Len(a) - 1
  /\ \A i \in 1..Len(b) : b[i] = IF i < k THEN a[i] ELSE a[i + 1]

C24_Step ==
  LET before == GetAll(issues)
      after == GetAll(issues')
      op == storeCall'.op
  IN \* a caller changes the array it holds
     /\ (returned'.value # returned.value /\ returned.ref # "none" /\ op # "getAll")
          => after = before
     \* getAll() gives the records in the order of the store
     /\ op = "getAll" => (returned'.value = before /\ after = before)
     /\ op = "create"
          => (Len(after) = Len(before) + 1 /\ SubSeq(after, 1, Len(before)) = before)
     /\ op \in {"update", "patch"}
          => /\ Len(after) = Len(before)
             /\ Cardinality({i \in 1..Len(before) : after[i] # before[i]}) <= 1
     /\ op = "delete"
          => \/ after = before /\ ~ storeCall'.found
             \/ \E k \in 1..Len(before) : C24_Without(before, after, k)

C24_GetAllCopiesInCreationOrder == [][C24_Step]_vars

\* A caller has changed an array it got from getAll() after records were
\* created, patched and deleted, and the store still has its own order.
C24_Witness ==
  /\ returned.ref # "none"
  /\ ~ returned.fresh
  /\ returned.value # GetAll(issues)
  /\ Len(created) = 2
  /\ Exists(issues, created[2])
  /\ ~ Exists(issues, "1")
  /\ issues[Len(issues)].id = created[2]

(***************************************************************************)
(* Handlers running concurrently                                           *)
(*                                                                         *)
(* A handler runs without interruption from one await to the next: POST    *)
(* awaits request.json(); PUT and PATCH await context.params and then      *)
(* request.json(); DELETE awaits context.params; GET awaits nothing. Other *)
(* handlers may run while one is suspended.                                *)
(***************************************************************************)

\* Bound of the model: number of handlers suspended at the same time.
MaxHandlers == 2

\* Bound of the model: number of store operations executed in one run.
MaxOps == 3

\* The requests that arrive while others are being handled.
ConcurrentRequests ==
  { Request("GET", "", "", "", JsonNull),
    Request("POST", "", "application/json", "42", JsonObject(FullFields)),
    Request("POST", "", "text/plain", "42", JsonObject(FullFields)),
    Request("PUT", "1", "application/json", "42", JsonObject(FullFields)),
    Request("PUT", "1", "application/json", "0", JsonObject(FullFields)),
    Request("PATCH", "1", "application/json", "42", JsonObject(StatusOnly)),
    Request("DELETE", "1", "", "", JsonNull) }

\* The await a handler reaches first, "" if it has none.
FirstAwait(req) ==
  CASE req.method = "GET" -> ""
    [] req.method = "POST" -> "json"
    [] req.method \in {"PUT", "PATCH", "DELETE"} -> "params"

\* The await a handler reaches after the one it is resumed from, "" if it
\* runs to its response.
NextAwait(req, at) ==
  IF at = "params" /\ req.method \in {"PUT", "PATCH"} THEN "json" ELSE ""

\* validateJsonRequest(request) throws in the part of the handler that runs
\* up to the await named: the handler answers 400 there.
ThrowsBefore(req, at) ==
  /\ req.method \in {"POST", "PUT", "PATCH"}
  /\ at = "json"
  /\ ~ ValidateJsonRequest(req)

\* A handler suspended at an await: it holds its request; arrived is the
\* number of store operations executed before it started.
Suspended(req, at, arrived) == [req |-> req, at |-> at, arrived |-> arrived]

\* A store operation as the log keeps it: the operation, its arguments, and
\* the number of store operations executed before its handler started.
Logged(o, req, arrived) ==
  [op |-> o.call.op, id |-> o.call.id, body |-> req.body, arrived |-> arrived]

\* The store operations applied one after another.
RECURSIVE Replay(_, _, _)
Replay(iss, nid, ops) ==
  IF ops = <<>> THEN [issues |-> iss, nextId |-> nid]
  ELSE LET e == Head(ops)
           r == CASE e.op = "create" -> Create(iss, nid, e.body)
                  [] e.op = "update" -> Update(iss, nid, e.id, e.body)
                  [] e.op = "patch" -> Patch(iss, nid, e.id, e.body)
                  [] e.op = "delete" -> Delete(iss, nid, e.id)
       IN Replay(r.issues, r.nextId, Tail(ops))

\* Variant: the handler works on the store as it was when the handler
\* started, and writes the result back.
StoreAtArrival(arrived) == Replay(SeedIssues, SeedNextId, SubSeq(log, 1, arrived))

\* The store a handler's storage.create/update/patch/delete call works on:
\* the fields of the storage singleton at the time of the call.
StoreAtCall(arrived) == [issues |-> issues, nextId |-> nextId]

\* The handler ran to its response.
Finish(req, arrived) ==
  LET s == StoreAtCall(arrived)
      o == Route(s.issues, s.nextId, req)
  IN /\ o.call.op = "create" => nextId < SeedNextId + MaxCreates
     /\ request' = req
     /\ Handle(o)
     /\ log' = IF o.call.op = "none" THEN log ELSE Append(log, Logged(o, req, arrived))

\* A request arrives and its handler runs to its first await, or to its
\* response if it throws before or has no await.
Arrive ==
  \E req \in ConcurrentRequests :
    /\ Len(awaiting) < MaxHandlers
    /\ Len(log) + Len(awaiting) < MaxOps
    /\ IF FirstAwait(req) = "" \/ ThrowsBefore(req, FirstAwait(req))
       THEN Finish(req, Len(log)) /\ UNCHANGED awaiting
       ELSE /\ awaiting' = Append(awaiting, Suspended(req, FirstAwait(req), Len(log)))
            /\ UNCHANGED <<serverVars, log>>
    /\ UNCHANGED <<returned, clientVars>>

\* A suspended handler is resumed and runs to its next await or to its
\* response.
Resume ==
  \E i \in 1..Len(awaiting) :
    LET h == awaiting[i]
        rest == SubSeq(awaiting, 1, i - 1) \o SubSeq(awaiting, i + 1, Len(awaiting))
        to == NextAwait(h.req, h.at)
    IN /\ IF to = "" \/ ThrowsBefore(h.req, to)
          THEN Finish(h.req, h.arrived) /\ awaiting' = rest
          ELSE /\ awaiting' = [awaiting EXCEPT ![i].at = to]
               /\ UNCHANGED <<serverVars, log>>
       /\ UNCHANGED <<returned, clientVars>>

ConcurrentNext ==
  \/ Arrive
  \/ Resume

\* The server handling requests that overlap.
ConcurrentSpec == Init /\ [][ConcurrentNext]_vars

(***************************************************************************)
(* C25: for every interleaving of concurrently handled requests, where     *)
(* handlers interleave only at their awaits and each store operation runs  *)
(* without interruption, the ids returned by concurrent CREATEs are        *)
(* pairwise distinct and increase in the order in which the store executed *)
(* them, and the collection is the result of applying the store operations *)
(* one after another in that order.                                        *)
(***************************************************************************)
C25_Creates == SelectSeq(log, LAMBDA e : e.op = "create")

C25_State ==
  /\ \A i, j \in 1..Len(created) : i < j => created[i] # created[j]
  /\ created = SubSeq(ExpectedIds, 1, Len(created))
  /\ Len(C25_Creates) = Len(created)
  /\ \A i \in 1..Len(created) : C25_Creates[i].id = created[i]
  /\ issues = Replay(SeedIssues, SeedNextId, log).issues
  /\ nextId = Replay(SeedIssues, SeedNextId, log).nextId

C25_SafeWithoutLock == [] C25_State

\* Two CREATEs overlapped: the handler of the second started before the
\* store executed the first; and a handler that started earlier still
\* executed its operation after them.
C25_Witness ==
  /\ Len(log) = 3
  /\ \E k \in 2..Len(log) :
       /\ log[k].op = "create" /\ log[k - 1].op = "create"
       /\ log[k].arrived < k - 1
  /\ \E k \in 2..Len(log) : log[k].arrived < log[k - 1].arrived
  /\ Len(created) = 2

(***************************************************************************)
(* C26: in every reachable store state every stored id is the decimal      *)
(* string of an integer k with 1 <= k < nextId, and nextId is 9 plus the   *)
(* number of create calls executed so far; update, patch, delete, getAll,  *)
(* getById and exists never change nextId.                                 *)
(* Fails: patch copies an id of the partial record into the stored record. *)
(***************************************************************************)
C26_State ==
  /\ \A i \in 1..Len(issues) : issues[i].id \in {String(k) : k \in 1..(nextId - 1)}
  /\ nextId = 9 + Len(created)

C26_Step == storeCall'.op # "create" => nextId' = nextId

C26_IdsBelowNextId == [] C26_State /\ [][C26_Step]_vars

(***************************************************************************)
(* C27: with one client and a server that answers every request, whenever  *)
(* no cache operation is pending and the last operation to settle did so   *)
(* successfully, the cache equals the collection of the store, for every   *)
(* interleaving of operation starts and response arrivals, including two   *)
(* operations started before the provider re-rendered and LIST responses   *)
(* that arrive in another order than their requests were sent.             *)
(* Fails: the LIST response that arrives last replaces the cache with an   *)
(* older list.                                                             *)
(***************************************************************************)
C27_Step ==
  \A i \in 1..Len(calls') :
    ( /\ ResolvesNow(i)
      /\ ~ calls'[i].skipped
      /\ \A j \in 1..Len(calls') : ~ Pending(calls'[j]) )
    => clientIssues' = GetAll(issues')

C27_IdleCacheEqualsStore == [][C27_Step]_vars

(***************************************************************************)
(* C28: if the mutation request of createIssue, patchIssue or deleteIssue  *)
(* succeeds on the server but the LIST request of the refresh that follows *)
(* gets a non-OK response, the call settles with the error of the refresh, *)
(* the store keeps the mutation, the cache keeps the contents it had       *)
(* before the call, and isLoading ends false.                              *)
(***************************************************************************)
\* The call got an OK answer to its own request and a non-OK answer to the
\* LIST request of its refresh.
C28_RefreshFailed(c) ==
  /\ Mutating(c)
  /\ c.sent = <<Method(c.kind), "GET">>
  /\ c.phase \in {"listed", "refreshed", "rejected"}
  /\ ~ Ok(c.resp)

\* The refresh throws (the call leaves "listed"), then the call throws the
\* same error on (it leaves "refreshed").
C28_Step ==
  \A i \in 1..Len(calls) :
    /\ (C28_RefreshFailed(calls[i]) /\ calls[i].phase = "listed"
          /\ calls'[i] # calls[i])
       => /\ calls'[i].phase = "refreshed"
          /\ calls'[i].resp = calls[i].resp
          /\ calls'[i].sent = calls[i].sent
          /\ clientIssues' = clientIssues
          /\ issues' = issues
          /\ isLoading' = FALSE
    /\ (C28_RefreshFailed(calls[i]) /\ calls[i].phase = "refreshed"
          /\ calls'[i] # calls[i])
       => /\ calls'[i].phase = "rejected"
          /\ calls'[i].error =
               (IF calls[i].resp.kind = "error" THEN calls[i].resp.error
                ELSE FallbackPrefix("refresh") \o " (HTTP "
                       \o String(calls[i].resp.status) \o ")")
          /\ calls'[i].sent = calls[i].sent
          /\ clientIssues' = clientIssues
          /\ issues' = issues
          /\ isLoading' = FALSE

\* The call is the only one made: the cache is the initial one, the store
\* shows the mutation.
C28_State ==
  (Len(calls) = 1 /\ C28_RefreshFailed(calls[1]) /\ calls[1].phase = "rejected")
  => /\ clientIssues = GetAll(SeedIssues)
     /\ Visible(calls[1], GetAll(issues))
     /\ ~ Visible(calls[1], clientIssues)
     /\ isLoading = FALSE

C28_RefreshErrorKeepsMutation == [] C28_State /\ [][C28_Step]_vars

\* A deleteIssue has thrown the error of its refresh: the record is gone
\* from the store and still in the cache.
C28_Witness ==
  /\ Len(calls) = 1
  /\ calls[1].kind = "delete"
  /\ C28_RefreshFailed(calls[1])
  /\ calls[1].phase = "rejected"
  /\ calls[1].error = FallbackPrefix("refresh") \o " (HTTP 500)"
  /\ ~ Exists(issues, calls[1].id)
  /\ Exists(clientIssues, calls[1].id)
  /\ isLoading = FALSE

(***************************************************************************)
(* C29: a refresh, createIssue, patchIssue or deleteIssue invocation that  *)
(* is stopped by the check on isLoading changes nothing: it sends no       *)
(* request, leaves the cache unchanged and leaves isLoading as it is, so   *)
(* it never clears the flag on behalf of the operation still in flight.    *)
(***************************************************************************)
C29_Step ==
  \A i \in 1..Len(calls') :
    (InvokedNow(i) /\ calls'[i].skipped) =>
      /\ calls'[i].sent = <<>>
      /\ Settled(calls'[i])
      /\ clientIssues' = clientIssues
      /\ isLoading' = isLoading
      /\ (\E j \in 1..Len(calls) : InFlight(calls[j]) /\ isLoading) => isLoading' = TRUE
      /\ \A j \in 1..Len(calls) : calls'[j] = calls[j]
      /\ UNCHANGED <<issues, nextId, request, response>>

C29_StoppedCallChangesNothing == [][C29_Step]_vars

\* While a call is in flight with the flag set, a createIssue was stopped
\* with the error of the check.
C29_Witness ==
  /\ Len(calls) = 2
  /\ InFlight(calls[1])
  /\ calls[2].kind = "create"
  /\ calls[2].skipped
  /\ calls[2].phase = "rejected"
  /\ calls[2].error = ErrBusy
  /\ isLoading = TRUE

(***************************************************************************)
(* The board: the home page shows the cached collection in four columns,   *)
(* and a card dropped on a column patches the status of its issue.  The    *)
(* board's callers are DOM events (drop, click): React renders the state   *)
(* updates made inside such an event before the next event is handled, so  *)
(* the next event's callbacks have captured the flag the event set.        *)
(***************************************************************************)
\* onDrop: patchIssue(event.dataTransfer.getData('text/plain'), { status }),
\* where the data is the issue.id that the card's onDragStart has set.
onDrop(id, status, closure, live) ==
  patchIssue(id, [status |-> status], "drop", closure, live)

\* The cards that are dragged, the columns they are dropped on and the
\* issues an outside request moves off the board: one whose card is
\* dragged and one whose card is not.
DragIds == {"1", "3"}
DropColumns == {"doing", "done"}
ApiIds == {"1", "5"}

\* The user starts to drag a card of the board as it was rendered:
\* onDragStart does event.dataTransfer.setData('text/plain', issue.id).
DragStart ==
  \E from \in BoardColumns :
    \E k \in 1..Len(Cards(renderedIssues, from)) :
      /\ ~ ContinuationReady
      /\ page = BoardPath
      /\ dragged = ""
      /\ Cards(renderedIssues, from)[k] \in DragIds
      /\ dragged' = Cards(renderedIssues, from)[k]
      /\ UNCHANGED <<clientIssues, isLoading, renderedIsLoading, calls,
                     renderedIssues, page, resuming, callers, history>>
      /\ UNCHANGED <<serverVars, processVars>>

\* The user drops what is dragged on a column of the board as it is
\* rendered now: onDrop reads the id back and calls patchIssue(id,
\* { status }), whether the board still has a card of that id or not.  The
\* drag ends with the drop.
Drop ==
  \E s \in DropColumns :
    /\ page = BoardPath
    /\ dragged # ""
    /\ PageEvent(onDrop(dragged, s, renderedIsLoading, isLoading))
    /\ dragged' = ""

\* The user clicks the refresh button, which is disabled while isLoading.
ClickRefresh ==
  /\ page = BoardPath
  /\ ~ renderedIsLoading
  /\ PageEvent(refresh(renderedIsLoading, isLoading))
  /\ UNCHANGED dragged

\* A request from outside the client gives an issue a status that no
\* column has: PATCH /api/issues/<id> {"status": "archived"}.
ApiSetStatus ==
  \E id \in ApiIds :
    LET req == Request("PATCH", id, "application/json", "21", JsonObject([status |-> "archived"]))
    IN /\ request' = req
       /\ Handle(PATCH(issues, nextId, id, req))
       /\ UNCHANGED <<clientVars, processVars>>

BoardNext ==
  \/ DragStart
  \/ Drop
  \/ ClickRefresh
  \/ ApiSetStatus
  \/ Render
  \/ ServerAnswer
  \/ ServerFault
  \/ ReceiveMutationResponse
  \/ ReceiveListResponse
  \/ ResumeAfterRefresh

\* The board of one client, the server that answers it and an outside
\* request.
BoardSpec == Init /\ [][BoardNext]_vars

\* No operation is running and the board has rendered that.
BoardIdle ==
  /\ ~ isLoading
  /\ ~ renderedIsLoading
  /\ \A j \in 1..Len(calls) : ~ InFlight(calls[j])

(***************************************************************************)
(* C30: dropping the card of issue i on the column of status s while the   *)
(* cache is idle issues exactly one patchIssue(i, {status: s}); once it    *)
(* succeeds, issue i is listed in column s and in no other column, the     *)
(* count shown by every column equals the number of cached issues with     *)
(* that column's status, and no other issue changes column; an issue whose *)
(* status is none of todo, doing, done, closed is listed in no column.     *)
(***************************************************************************)
\* The drag of a card starts on a card that the board shows, and makes no
\* call.  The drop makes one call: a patchIssue of the issue of the card
\* dragged with the column's status, which sends one PATCH.
C30_DropStep ==
  /\ (dragged' # dragged /\ dragged' # "") =>
       /\ ColumnsOf(renderedIssues, dragged') # {}
       /\ calls' = calls
  /\ \A i \in 1..Len(calls') :
    (InvokedNow(i) /\ calls'[i].via = "drop" /\ BoardIdle) =>
      /\ calls'[i].kind = "patch"
      /\ dragged # ""
      /\ calls'[i].id = dragged
      /\ DOMAIN calls'[i].updates = {"status"}
      /\ calls'[i].updates.status \in BoardColumns
      /\ ~ calls'[i].skipped
      /\ calls'[i].sent = <<"PATCH">>
      /\ \A j \in 1..Len(calls) : calls'[j] = calls[j]

\* Every column counts and lists the cached issues of its status, and an
\* issue of another status is in no column.
C30_Columns ==
  /\ \A s \in BoardColumns :
       /\ Count(clientIssues, s)
            = Cardinality({k \in 1..Len(clientIssues) : clientIssues[k].status = s})
       /\ Len(Cards(clientIssues, s)) = Count(clientIssues, s)
  /\ \A k \in 1..Len(clientIssues) :
       clientIssues[k].status \notin BoardColumns
         => ColumnsOf(clientIssues, clientIssues[k].id) = {}

\* The drop has succeeded: its card is in the column it was dropped on.
C30_CardInItsColumn(i) ==
  ColumnsOf(clientIssues', calls'[i].id) = {calls'[i].updates.status}

\* The refresh of the drop ends with success and the board shows its list;
\* the drop returns when its await resumes, with the board as it is.
C30_Succeeds(i) ==
  /\ i \in 1..Len(calls)
  /\ calls[i].via = "drop"
  /\ calls[i].phase = "listed"
  /\ calls'[i].phase = "refreshed"
  /\ Ok(calls[i].resp)

C30_Returns(i) ==
  /\ ResolvesNow(i)
  /\ calls'[i].via = "drop"
  /\ ~ calls'[i].skipped

\* As stated: no other card has changed column when the drop has succeeded.
C30_StatedStep ==
  \A i \in 1..Len(calls') :
    /\ C30_Succeeds(i) =>
         /\ C30_CardInItsColumn(i)
         /\ \A k \in 1..Len(clientIssues) :
              clientIssues[k].id # calls'[i].id =>
                ColumnsOf(clientIssues', clientIssues[k].id)
                  = ColumnsOf(clientIssues, clientIssues[k].id)
    /\ C30_Returns(i) => (C30_CardInItsColumn(i) /\ clientIssues' = clientIssues)

C30_DropMovesOnlyItsCard == [] C30_Columns /\ [][C30_DropStep /\ C30_StatedStep]_vars

\* The PATCH of a drop changes the status of its issue in the store and
\* nothing else.
C30_PatchStep ==
  \A i \in 1..Len(calls) :
    (/\ calls[i].via = "drop"
     /\ calls[i].phase = "fetch"
     /\ calls'[i].phase = "fetched"
     /\ Ok(calls'[i].resp)) =>
      /\ Len(issues') = Len(issues)
      /\ \A k \in 1..Len(issues) :
           issues'[k] = IF issues[k].id = calls[i].id
                        THEN [issues[k] EXCEPT !.status = calls[i].updates.status]
                        ELSE issues[k]

\* The GET of the drop's refresh is answered with the collection of the
\* store.  When the request the server handled last before it is the PATCH
\* of the drop, the list has the issue with the status of the column.
C30_FetchStep ==
  \A i \in 1..Len(calls) :
    (/\ calls[i].via = "drop"
     /\ calls[i].phase = "list"
     /\ calls'[i].phase = "listed"
     /\ Ok(calls'[i].resp)) =>
      /\ calls'[i].resp.list = GetAll(issues)
      /\ issues' = issues
      /\ ( /\ request.method = "PATCH"
           /\ request.id = calls[i].id
           /\ "status" \in DOMAIN request.body.fields
           /\ request.body.fields.status = calls[i].updates.status )
         => /\ GetById(calls'[i].resp.list, calls[i].id).found
            /\ GetById(calls'[i].resp.list, calls[i].id).issue.status
                 = calls[i].updates.status

\* When the drop has succeeded the board shows the collection that the
\* drop's refresh fetched: every issue in the column of its fetched
\* status, the card of the drop in its column if the list has it there.
C30_ShowStep ==
  \A i \in 1..Len(calls') :
    /\ C30_Succeeds(i) =>
         /\ Ok(calls[i].resp)
         /\ clientIssues' = calls[i].resp.list
         /\ \A k \in 1..Len(clientIssues') :
              ColumnsOf(clientIssues', clientIssues'[k].id)
                = {clientIssues'[k].status} \cap BoardColumns
         /\ ( /\ GetById(calls[i].resp.list, calls[i].id).found
              /\ GetById(calls[i].resp.list, calls[i].id).issue.status
                   = calls[i].updates.status )
            => C30_CardInItsColumn(i)
    /\ C30_Returns(i) =>
         /\ Ok(calls[i].resp)
         /\ clientIssues' = clientIssues
         /\ clientIssues = calls[i].resp.list

\* C30, amended: the drop changes no other issue in the store; its success
\* shows the collection its refresh fetched, every issue in the column of
\* its fetched status.  The card is in the column it was dropped on when
\* the server handled no other request between the PATCH of the drop and
\* the GET of its refresh; another card may have moved.
C30_DropShowsFetchedCollection ==
  [] C30_Columns
    /\ [][C30_DropStep /\ C30_PatchStep /\ C30_FetchStep /\ C30_ShowStep]_vars

\* Card 1 was dropped on "done" while the board was idle and the drop has
\* succeeded: the card is in that column only, and issue 5, which an
\* outside request has archived, is in no column.
C30_Witness ==
  /\ Len(calls) >= 1
  /\ calls[1].via = "drop"
  /\ calls[1].id = "1"
  /\ calls[1].updates.status = "done"
  /\ calls[1].phase = "resolved"
  /\ ~ calls[1].skipped
  /\ ColumnsOf(clientIssues, "1") = {"done"}
  /\ GetById(clientIssues, "5").found
  /\ GetById(clientIssues, "5").issue.status = "archived"
  /\ ColumnsOf(clientIssues, "5") = {}
  /\ Count(clientIssues, "done") = 3



=============================================================================
